---- MODULE Spec2Model ----
(***************************************************************************)
(* Verification model of kegliz/qplay: the circuit IR (qc/dag, qc/circuit, *)
(* qc/builder), the shot-execution engine (qc/simulator) and the qsim /    *)
(* itsu backends (qc/simulator/qsim, qc/simulator/itsu).                   *)
(*                                                                         *)
(* The specifications share the variables of this module:                  *)
(*   Spec       - one fluent builder, its DAG and the circuit built from it*)
(*   SpecDag    - one DAG driven through AddGate / AddMeasure / Validate   *)
(*   SpecOps    - a caller of Circuit.Operations()                         *)
(*   SpecShots  - one engine call (RunSerial / RunParallelChan /           *)
(*                RunParallelStatic) with its worker goroutines            *)
(*   SpecStatic - defaults and partition of RunParallelStatic              *)
(*   SpecKernel - gate kernels of qsim applied to a statevector            *)
(*   SpecRun    - one RunOnce of a backend (qsim or itsu)                  *)
(*   SpecShotsFair   - SpecShots with fair scheduling of the goroutines    *)
(*   SpecRegistry    - goroutines calling the runner registry concurrently *)
(*   SpecRegistrySeq - one goroutine calling the runner registry           *)
(*   SpecQSim   - concurrent RunOnceWithContext calls, cancellation and    *)
(*                the metrics of a QSimRunner                              *)
(*   SpecSeed   - two QSimRunner instances configured with a seed          *)
(***************************************************************************)
EXTENDS Integers, Sequences, FiniteSets, TLC

VARIABLES
    \* ---- builder / DAG / circuit (Spec) ----
    d,          \* the *dag.DAG owned by the builder
    b,          \* builder fields: err, built
    circ,       \* the circuit returned by the last successful BuildCircuit
    ret,        \* what the last builder call returned
    idCtr,      \* dag.idCtr, the process-wide NodeID counter
    log,        \* the calls the DAG accepted, in call order
    \* ---- shot engine (SpecShots) ----
    strategy,   \* which Run* method was called
    Shots,      \* Simulator.Shots
    Workers,    \* Simulator.Workers
    hist,       \* the histogram map (missing key = 0)
    mu,         \* holder of the histogram mutex, -1 = unlocked
    jobs,       \* number of jobs left in the (closed) jobs channel
    errChan,    \* buffered error channel
    wpc,        \* per worker: position in the goroutine body
    wkey,       \* per worker: key returned by the last RunOnce
    wtmp,       \* per worker: value read by hist[key]++ before the store
    wn,         \* per worker: iterations left of "for range n"
    workerErr,  \* per worker: workerErr of RunParallelChan
    mpc,        \* position of the calling goroutine
    si,         \* loop index i of RunSerial
    retErr,     \* error returned by the engine call
    callCount,  \* mockOneShotRunner.callCount
    failCount,  \* number of RunOnce invocations that returned an error
    \* ---- kernel / backend RunOnce (SpecRun) ----
    backend,        \* "qsim" or "itsu"
    amplitudes,     \* QuantumState.amplitudes
    classicalBits,  \* QuantumState.classicalBits / cbits of itsu runOnce
    written,        \* classical bit -> outcome of the last MEASURE onto it
    prevAmps,       \* amplitudes before the last gate application
    lastGate,       \* the last gate applied by ApplyGate
    rpc,            \* position inside RunOnce
    result,         \* string returned by RunOnce, as its characters
    \* ---- a caller of Circuit.Operations() (SpecOps) ----
    heap,       \* backing arrays of the Qubits slices of the cached operations
    got,        \* the slice the last Operations() call returned, as the caller holds it
    muts,       \* number of writes the caller made through that slice
    \* ---- the runner registry and its callers (SpecRegistry) ----
    factories,  \* RunnerRegistry.factories
    rmu,        \* RunnerRegistry.mu: the writer holding it and the readers
    gpc,        \* per calling goroutine: position in its registry method
    gcall,      \* per calling goroutine: the method called and its arguments
    gloc,       \* per calling goroutine: locals factory / exists
    gret,       \* per calling goroutine: what the method returned
    gabs,       \* per calling goroutine: what a name-to-factory map returns
    absMap,     \* the name-to-factory map the calls are compared with
    regInit,    \* factories when the calls were issued
    rcalls,     \* number of calls issued by the sequential caller
    \* ---- QSimRunner.RunOnceWithContext and the metrics (SpecQSim) ----
    totalExecutions,  \* QSimMetrics.totalExecutions
    successfulRuns,   \* QSimMetrics.successfulRuns
    failedRuns,       \* QSimMetrics.failedRuns
    qpc,        \* per call: position in RunOnceWithContext
    qctx,       \* per call: its context is cancelled
    qi,         \* per call: operations applied so far
    qstartc,    \* per call: the context was cancelled when the call started
    qseen,      \* per call: a check of ctx.Done() ran on the cancelled context
    qafter,     \* per call: operations applied after such a check
    qret,       \* per call: outcome and error returned
    qdid,       \* per call: the increments it made to the three counters
    rspc,       \* position of the goroutine inside Reset / ResetMetrics
    \* ---- two seeded runners under RunSerial (SpecSeed) ----
    sseed,      \* per runner: config["seed"]
    shist,      \* per runner: histogram of its RunSerial
    sshot       \* per runner: shots of its RunSerial done

buildVars == <<d, b, circ, ret, idCtr, log>>
shotVars == <<strategy, Shots, Workers, hist, mu, jobs, errChan, wpc, wkey,
              wtmp, wn, workerErr, mpc, si, retErr, callCount, failCount>>
runVars == <<backend, amplitudes, classicalBits, written, prevAmps, lastGate,
             rpc, result>>
opsVars == <<heap, got, muts>>
regVars == <<factories, rmu, gpc, gcall, gloc, gret, gabs, absMap, regInit, rcalls>>
qsimVars == <<totalExecutions, successfulRuns, failedRuns, qpc, qctx, qi, qstartc,
              qseen, qafter, qret, qdid, rspc>>
seedVars == <<sseed, shist, sshot>>
extVars == <<regVars, qsimVars, seedVars>>
vars == <<d, b, circ, ret, idCtr, log,
          strategy, Shots, Workers, hist, mu, jobs, errChan, wpc, wkey,
          wtmp, wn, workerErr, mpc, si, retErr, callCount, failCount,
          backend, amplitudes, classicalBits, written, prevAmps, lastGate,
          rpc, result, heap, got, muts,
          factories, rmu, gpc, gcall, gloc, gret, gabs, absMap, regInit, rcalls,
          totalExecutions, successfulRuns, failedRuns, qpc, qctx, qi, qstartc,
          qseen, qafter, qret, qdid, rspc,
          sseed, shist, sshot>>

(***************************************************************************)
(* Bounds                                                                  *)
(***************************************************************************)
NumQubits == 3      \* builder.Q(n) of the modelled builder
NumClbits == 1      \* builder.C(n) of the modelled builder
MaxOps == 3         \* accepted calls per builder, all call sequences explored
MaxIdStart == 1     \* NodeIDs already drawn by other DAGs of the process
MaxShots == 3       \* largest SimulatorOptions.Shots
MaxWorkers == 2     \* largest SimulatorOptions.Workers
NumCPU == 2         \* runtime.NumCPU() of the modelled machine
KernelQubits == 3   \* qubits of the statevector the kernels are applied to
RunQubits == 2      \* qubits of the circuit a RunOnce executes
MaxClbits == 2      \* classical bits of the circuit a RunOnce executes
RandGrid == 2       \* rand.Float64() takes the values k / RandGrid, k < RandGrid
RegProcs == 2       \* goroutines calling the registry concurrently
RegSeqCalls == 2    \* calls the sequential caller of the registry makes
QProcs == 2         \* goroutines calling RunOnceWithContext on one runner
QOps == 2           \* operations of the circuit they run
MaxSeed == 2        \* largest value of the "seed" option
SeedShots == 2      \* shots of the seeded RunSerial calls
OpsLen == 3         \* operations of the circuit whose Operations() is called
OpsMaxMuts == 2     \* writes a caller makes through a returned slice
DagQubits == 2      \* qubits of the DAG driven through its own API
DagClbits == 1      \* classical bits of that DAG
DagMaxNodes == 3    \* nodes that DAG may hold
PartShots == 6      \* largest Shots field handed to the static partition
PartWorkers == 4    \* largest Workers field handed to the static partition

(***************************************************************************)
(* Generic helpers                                                         *)
(***************************************************************************)
Range(s) == {s[i] : i \in DOMAIN s}

SeqPerms(S) ==
    {s \in [1..Cardinality(S) -> S] : \A i, j \in 1..Cardinality(S) : s[i] = s[j] => i = j}

Max(S) == CHOOSE x \in S : \A y \in S : y <= x
Min(S) == CHOOSE x \in S : \A y \in S : x <= y

(***************************************************************************)
(* Gate catalogue (qc/gate/builtin.go)                                     *)
(***************************************************************************)
QubitSpan(g) ==
    CASE g \in {"H", "X", "Y", "S", "Z", "MEASURE"} -> 1
      [] g \in {"SWAP", "CNOT", "CZ"} -> 2
      [] g \in {"TOFFOLI", "FREDKIN"} -> 3

(***************************************************************************)
(* Errors (qc/dag/errors.go and the fmt.Errorf values of dag.go)           *)
(***************************************************************************)
Err(kind) == [kind |-> kind, q |-> -1, g |-> ""]
Nil == Err("nil")
ErrBadQubit == Err("ErrBadQubit")
ErrBadClbit == Err("ErrBadClbit")
ErrSpan == Err("ErrSpan")
ErrBuild == Err("ErrBuild")
ErrValidated == Err("ErrValidated")
ErrDuplicate(q, g) == [kind |-> "duplicate qubit", q |-> q, g |-> g]
ErrCycle(id, g) == [kind |-> "cycle", q |-> id, g |-> g]

(***************************************************************************)
(* qc/dag/dag.go                                                           *)
(***************************************************************************)
NoNodes == [id \in {} |-> 0]

New(qb, cb) ==
    [qubits |-> qb, clbits |-> cb,
     nodes |-> NoNodes,
     byQ |-> [q \in 0..(qb - 1) |-> <<>>],
     last |-> [q \in 0..(qb - 1) |-> 0],
     valid |-> FALSE,
     topoOrder |-> <<>>,
     depth |-> -1]

\* checkGateLoop without the seen map.
RECURSIVE checkGateLoopNoSeen(_, _, _, _, _)
checkGateLoopNoSeen(dd, g, qs, i, seen) ==
    IF i > Len(qs) THEN Nil
    ELSE IF qs[i] < 0 \/ qs[i] >= dd.qubits THEN ErrBadQubit
    ELSE checkGateLoopNoSeen(dd, g, qs, i + 1, seen)

\* checkGate: span, then per qubit range and duplicate, in argument order.
RECURSIVE checkGateLoop(_, _, _, _, _)
checkGateLoop(dd, g, qs, i, seen) ==
    IF i > Len(qs) THEN Nil
    ELSE IF qs[i] < 0 \/ qs[i] >= dd.qubits THEN ErrBadQubit
    ELSE IF qs[i] \in seen THEN ErrDuplicate(qs[i], g)
    ELSE checkGateLoop(dd, g, qs, i + 1, seen \cup {qs[i]})

checkGate(dd, g, qs) ==
    IF Len(qs) # QubitSpan(g) THEN ErrSpan
    ELSE checkGateLoop(dd, g, qs, 1, {})

\* AddGateLoop without the parentSet test: a parent is linked once per wire.
RECURSIVE AddGateLoopNoParentSet(_, _, _, _, _)
AddGateLoopNoParentSet(dd, id, qs, i, parentSet) ==
    IF i > Len(qs) THEN dd
    ELSE
        LET q == qs[i]
            prev == dd.last[q]
            nodes1 ==
                IF prev # 0
                THEN [dd.nodes EXCEPT ![id].parents = Append(@, prev),
                                      ![prev].children = Append(@, id)]
                ELSE dd.nodes
            dd1 == [dd EXCEPT !.nodes = nodes1,
                              !.last[q] = id,
                              !.byQ[q] = Append(@, id)]
        IN AddGateLoopNoParentSet(dd1, id, qs, i + 1, parentSet)

\* AddGateLoop that forgets to move the last-writer slot of the wire.
RECURSIVE AddGateLoopStaleLast(_, _, _, _, _)
AddGateLoopStaleLast(dd, id, qs, i, parentSet) ==
    IF i > Len(qs) THEN dd
    ELSE
        LET q == qs[i]
            prev == dd.last[q]
            link == prev # 0 /\ prev \notin parentSet
            nodes1 ==
                IF link
                THEN [dd.nodes EXCEPT ![id].parents = Append(@, prev),
                                      ![prev].children = Append(@, id)]
                ELSE dd.nodes
            dd1 == [dd EXCEPT !.nodes = nodes1,
                              !.last[q] = IF prev = 0 THEN id ELSE prev,
                              !.byQ[q] = Append(@, id)]
        IN AddGateLoopStaleLast(dd1, id, qs, i + 1,
                                IF link THEN parentSet \cup {prev} ELSE parentSet)

\* AddGateLoop that records every edge in the opposite direction.
RECURSIVE AddGateLoopReversed(_, _, _, _, _)
AddGateLoopReversed(dd, id, qs, i, parentSet) ==
    IF i > Len(qs) THEN dd
    ELSE
        LET q == qs[i]
            prev == dd.last[q]
            link == prev # 0 /\ prev \notin parentSet
            nodes1 ==
                IF link
                THEN [dd.nodes EXCEPT ![id].children = Append(@, prev),
                                      ![prev].parents = Append(@, id)]
                ELSE dd.nodes
            dd1 == [dd EXCEPT !.nodes = nodes1,
                              !.last[q] = id,
                              !.byQ[q] = Append(@, id)]
        IN AddGateLoopReversed(dd1, id, qs, i + 1,
                               IF link THEN parentSet \cup {prev} ELSE parentSet)

\* The edge-building loop of AddGate: one iteration per entry of qs.
RECURSIVE AddGateLoop(_, _, _, _, _)
AddGateLoop(dd, id, qs, i, parentSet) ==
    IF i > Len(qs) THEN dd
    ELSE
        LET q == qs[i]
            prev == dd.last[q]
            link == prev # 0 /\ prev \notin parentSet
            nodes1 ==
                IF link
                THEN [dd.nodes EXCEPT ![id].parents = Append(@, prev),
                                      ![prev].children = Append(@, id)]
                ELSE dd.nodes
            dd1 == [dd EXCEPT !.nodes = nodes1,
                              !.last[q] = id,
                              !.byQ[q] = Append(@, id)]
        IN AddGateLoop(dd1, id, qs, i + 1,
                       IF link THEN parentSet \cup {prev} ELSE parentSet)

\* AddGate that does not look at the valid flag.
AddGateNoFreeze(dd, g, qs, id) ==
    IF checkGate(dd, g, qs) # Nil THEN [err |-> checkGate(dd, g, qs), d |-> dd]
    ELSE
        LET n == [ID |-> id, G |-> g, Qubits |-> qs, Cbit |-> -1,
                  parents |-> <<>>, children |-> <<>>]
            dd1 == [dd EXCEPT !.nodes = (id :> n) @@ dd.nodes]
        IN [err |-> Nil, d |-> AddGateLoop(dd1, id, qs, 1, {})]

\* AddGate with the NodeID that nextID() hands out; result: error and DAG.
AddGate(dd, g, qs, id) ==
    IF dd.valid THEN [err |-> ErrValidated, d |-> dd]
    ELSE IF checkGate(dd, g, qs) # Nil THEN [err |-> checkGate(dd, g, qs), d |-> dd]
    ELSE
        LET n == [ID |-> id, G |-> g, Qubits |-> qs, Cbit |-> -1,
                  parents |-> <<>>, children |-> <<>>]
            dd1 == [dd EXCEPT !.nodes = (id :> n) @@ dd.nodes]
        IN [err |-> Nil, d |-> AddGateLoop(dd1, id, qs, 1, {})]

AddMeasure(dd, q, c, id) ==
    IF dd.valid THEN [err |-> ErrValidated, d |-> dd]
    ELSE IF q < 0 \/ q >= dd.qubits THEN [err |-> ErrBadQubit, d |-> dd]
    ELSE IF c < 0 \/ c >= dd.clbits THEN [err |-> ErrBadClbit, d |-> dd]
    ELSE
        LET prev == dd.last[q]
            n == [ID |-> id, G |-> "MEASURE", Qubits |-> <<q>>, Cbit |-> c,
                  parents |-> IF prev # 0 THEN <<prev>> ELSE <<>>,
                  children |-> <<>>]
            nodes1 == (id :> n) @@ dd.nodes
            nodes2 == IF prev # 0
                      THEN [nodes1 EXCEPT ![prev].children = Append(@, id)]
                      ELSE nodes1
        IN [err |-> Nil,
            d |-> [dd EXCEPT !.nodes = nodes2,
                             !.last[q] = id,
                             !.byQ[q] = Append(@, id)]]

\* acyclic: three-colour DFS over the child lists.  st maps a node to 1
\* (visiting) or 2 (done); a node outside DOMAIN st is unvisited.
RECURSIVE dfs(_, _, _)
RECURSIVE dfsChildren(_, _, _, _)
dfs(dd, id, r) ==
    IF r.err # Nil THEN r
    ELSE IF id \in DOMAIN r.st /\ r.st[id] = 1
         THEN [r EXCEPT !.err = ErrCycle(id, dd.nodes[id].G)]
    ELSE IF id \in DOMAIN r.st /\ r.st[id] = 2 THEN r
    ELSE
        LET r1 == [r EXCEPT !.st = (id :> 1) @@ r.st]
            r2 == dfsChildren(dd, dd.nodes[id].children, 1, r1)
        IN IF r2.err # Nil THEN r2
           ELSE [r2 EXCEPT !.st = (id :> 2) @@ r2.st]

dfsChildren(dd, children, i, r) ==
    IF i > Len(children) \/ r.err # Nil THEN r
    ELSE dfsChildren(dd, children, i + 1, dfs(dd, children[i], r))

RECURSIVE acyclicLoop(_, _, _, _)
acyclicLoop(dd, order, i, r) ==
    IF i > Len(order) \/ r.err # Nil THEN r
    ELSE acyclicLoop(dd, order, i + 1,
                     IF order[i] \in DOMAIN r.st THEN r ELSE dfs(dd, order[i], r))

\* mapOrder is the order in which "for id := range d.nodes" delivers the IDs.
acyclic(dd, mapOrder) ==
    acyclicLoop(dd, mapOrder, 1, [err |-> Nil, st |-> NoNodes]).err

\* calculateTopoSort (Kahn).  rootOrder is the order in which the range over
\* the inDeg map delivers the nodes of in-degree zero.
\* KahnChildren that enqueues a child on every decrement.
RECURSIVE KahnChildrenEager(_, _, _, _)
KahnChildrenEager(children, i, inDeg, queue) ==
    IF i > Len(children) THEN [inDeg |-> inDeg, queue |-> queue]
    ELSE
        LET c == children[i]
            inDeg1 == [inDeg EXCEPT ![c] = @ - 1]
        IN KahnChildrenEager(children, i + 1, inDeg1, Append(queue, c))

RECURSIVE KahnChildren(_, _, _, _)
KahnChildren(children, i, inDeg, queue) ==
    IF i > Len(children) THEN [inDeg |-> inDeg, queue |-> queue]
    ELSE
        LET c == children[i]
            inDeg1 == [inDeg EXCEPT ![c] = @ - 1]
        IN KahnChildren(children, i + 1, inDeg1,
                        IF inDeg1[c] = 0 THEN Append(queue, c) ELSE queue)

RECURSIVE KahnLoop(_, _, _, _)
KahnLoop(dd, queue, inDeg, order) ==
    IF queue = <<>> THEN order
    ELSE
        LET id == Head(queue)
            r == KahnChildren(dd.nodes[id].children, 1, inDeg, Tail(queue))
        IN KahnLoop(dd, r.queue, r.inDeg, Append(order, id))

InDeg(dd) == [id \in DOMAIN dd.nodes |-> Len(dd.nodes[id].parents)]

Roots(dd) == {id \in DOMAIN dd.nodes : InDeg(dd)[id] = 0}

calculateTopoSort(dd, rootOrder) == KahnLoop(dd, rootOrder, InDeg(dd), <<>>)

\* calculateDepthLoop without "depth++".
RECURSIVE calculateDepthLoopNoIncrement(_, _, _, _, _)
calculateDepthLoopNoIncrement(dd, order, i, nodeDepth, maxDepth) ==
    IF i > Len(order) THEN maxDepth
    ELSE
        LET node == dd.nodes[order[i]]
            known == {nodeDepth[p] : p \in Range(node.parents) \cap DOMAIN nodeDepth}
            depth == Max(known \cup {0})
        IN calculateDepthLoopNoIncrement(dd, order, i + 1,
                              (node.ID :> depth) @@ nodeDepth,
                              IF depth > maxDepth THEN depth ELSE maxDepth)

\* calculateDepth over a topological order.
RECURSIVE calculateDepthLoop(_, _, _, _, _)
calculateDepthLoop(dd, order, i, nodeDepth, maxDepth) ==
    IF i > Len(order) THEN maxDepth
    ELSE
        LET node == dd.nodes[order[i]]
            known == {nodeDepth[p] : p \in Range(node.parents) \cap DOMAIN nodeDepth}
            depth == Max(known \cup {0}) + 1
        IN calculateDepthLoop(dd, order, i + 1,
                              (node.ID :> depth) @@ nodeDepth,
                              IF depth > maxDepth THEN depth ELSE maxDepth)

calculateDepth(dd, order) ==
    IF Len(order) = 0 THEN 0
    ELSE calculateDepthLoop(dd, order, 1, NoNodes, 0)

\* Validate; mapOrder and rootOrder are the two map iteration orders it meets.
Validate(dd, mapOrder, rootOrder) ==
    IF dd.valid THEN [err |-> Nil, d |-> dd]
    ELSE IF acyclic(dd, mapOrder) # Nil THEN [err |-> acyclic(dd, mapOrder), d |-> dd]
    ELSE
        LET order == calculateTopoSort(dd, rootOrder)
        IN [err |-> Nil,
            d |-> [dd EXCEPT !.topoOrder = order,
                             !.depth = calculateDepth(dd, order),
                             !.valid = TRUE]]

\* DAG.Operations(): nil (here the empty sequence) unless validated.
Operations(dd) == IF dd.valid THEN dd.topoOrder ELSE <<>>

(***************************************************************************)
(* qc/circuit/circuit.go                                                   *)
(***************************************************************************)
NoCircuit == [qubits |-> -1, clbits |-> -1, ops |-> <<>>, depth |-> -1, maxStep |-> -2]

\* A less function that compares the TimeStep only.
OpLessStepOnly(x, y) == x.TimeStep < y.TimeStep

\* The less function handed to sort.SliceStable.
OpLess(x, y) ==
    IF x.TimeStep # y.TimeStep THEN x.TimeStep < y.TimeStep
    ELSE x.Line < y.Line

\* sort.SliceStable: x goes behind every element that is not greater.
RECURSIVE StableInsert(_, _)
StableInsert(sorted, x) ==
    IF sorted = <<>> THEN <<x>>
    ELSE IF OpLess(x, sorted[Len(sorted)])
         THEN Append(StableInsert(SubSeq(sorted, 1, Len(sorted) - 1), x), sorted[Len(sorted)])
         ELSE Append(sorted, x)

RECURSIVE SliceStable(_, _, _)
SliceStable(ops, i, sorted) ==
    IF i > Len(ops) THEN sorted
    ELSE SliceStable(ops, i + 1, StableInsert(sorted, ops[i]))

\* A Line that is the top wire for every node.
minQubitZero(qs) == IF Len(qs) > 0 THEN 0 ELSE -1

\* A Line that takes the first qubit of the node.
minQubitFirst(qs) == IF Len(qs) > 0 THEN qs[1] ELSE -1

\* Line of a node: the minimum of its qubit indices (-1 without qubits).
minQubit(qs) == IF Len(qs) > 0 THEN Min(Range(qs)) ELSE -1

\* The layout loop of FromDAG over the topological order.
RECURSIVE FromDAGLoop(_, _, _, _, _, _)
FromDAGLoop(dd, nodes, i, nodeTimeStep, ops, maxStep) ==
    IF i > Len(nodes) THEN [ops |-> ops, maxStep |-> maxStep]
    ELSE
        LET n == dd.nodes[nodes[i]]
            known == {nodeTimeStep[p] : p \in Range(n.parents) \cap DOMAIN nodeTimeStep}
            currentMaxParentStep == Max(known \cup {-1})
            step == currentMaxParentStep + 1
            op == [G |-> n.G, Qubits |-> n.Qubits, Cbit |-> n.Cbit,
                   TimeStep |-> step, Line |-> minQubit(n.Qubits)]
        IN FromDAGLoop(dd, nodes, i + 1, (n.ID :> step) @@ nodeTimeStep,
                       Append(ops, op),
                       IF step > maxStep THEN step ELSE maxStep)

FromDAG(dd) ==
    LET nodes == Operations(dd)
    IN IF Len(nodes) = 0
       THEN [qubits |-> dd.qubits, clbits |-> dd.clbits, ops |-> <<>>,
             depth |-> 0, maxStep |-> -1]
       ELSE
           LET r == FromDAGLoop(dd, nodes, 1, NoNodes, <<>>, -1)
           IN [qubits |-> dd.qubits, clbits |-> dd.clbits,
               ops |-> SliceStable(r.ops, 1, <<>>),
               depth |-> r.maxStep + 1, maxStep |-> r.maxStep]

(***************************************************************************)
(* qc/builder/builder.go                                                   *)
(***************************************************************************)
newBuilder == [err |-> Nil, built |-> FALSE]

bail(bb, err) == IF bb.err = Nil THEN [bb EXCEPT !.err = err] ELSE bb

\* A checkState that looks at the built flag only.
checkStateBuiltOnly(bb) == bb.built

\* A checkState that looks at the latched error only.
checkStateErrOnly(bb) == bb.err # Nil

checkState(bb) == bb.built \/ bb.err # Nil

\* Gate handed to the DAG by each fluent method.
MethodGate(m) ==
    CASE m = "H" -> "H"
      [] m = "X" -> "X"
      [] m = "S" -> "S"
      [] m = "CNOT" -> "CNOT"
      [] m = "CZ" -> "CZ"
      [] m = "SWAP" -> "SWAP"
      [] m = "Toffoli" -> "TOFFOLI"
      [] m = "Fredkin" -> "FREDKIN"
      [] m = "Measure" -> "MEASURE"

\* The fluent calls the model issues: the calls of the layout example of the
\* tests, a three-qubit gate, a measurement, and one call per rejection.
BuilderCalls ==
    { [m |-> "H", args |-> <<0>>],
      [m |-> "H", args |-> <<1>>],
      [m |-> "X", args |-> <<1>>],
      [m |-> "CNOT", args |-> <<0, 2>>],
      [m |-> "CZ", args |-> <<0, 1>>],
      [m |-> "Toffoli", args |-> <<2, 1, 0>>],
      [m |-> "Measure", args |-> <<2, 0>>],
      [m |-> "H", args |-> <<NumQubits>>],
      [m |-> "CNOT", args |-> <<1, 1>>],
      [m |-> "Measure", args |-> <<0, NumClbits>>] }

\* The layout program of TestCircuit_Layout, explored beyond MaxOps.
LayoutExample ==
    << [m |-> "H", args |-> <<0>>],
       [m |-> "H", args |-> <<1>>],
       [m |-> "CNOT", args |-> <<0, 2>>],
       [m |-> "X", args |-> <<1>>],
       [m |-> "CZ", args |-> <<0, 1>>] >>

\* What the DAG answers to a fluent call (add1/add2/add3 -> AddGate,
\* Measure -> AddMeasure) when it draws NodeID id.
DagCall(dd, c, id) ==
    IF c.m = "Measure" THEN AddMeasure(dd, c.args[1], c.args[2], id)
    ELSE AddGate(dd, MethodGate(c.m), c.args, id)

\* The record of an accepted call, as the log keeps it.
Accepted(c) ==
    IF c.m = "Measure"
    THEN [G |-> "MEASURE", Qubits |-> <<c.args[1]>>, Cbit |-> c.args[2]]
    ELSE [G |-> MethodGate(c.m), Qubits |-> c.args, Cbit |-> -1]

AcceptedSeq(cs) == [i \in DOMAIN cs |-> Accepted(cs[i])]

IsPrefix(s, t) == Len(s) <= Len(t) /\ s = SubSeq(t, 1, Len(s))

\* The error of a build call on a builder that was already built:
\* fmt.Errorf("... already called: %w", dag.ErrBuild).
AlreadyBuilt == Err("already called: ErrBuild")

\* BuildDAG as a function of the builder, its DAG and the iteration orders.
BuildDAGOp(bb, dd, mapOrder, rootOrder) ==
    IF bb.built
    THEN [err |-> AlreadyBuilt, ok |-> FALSE, b |-> bb, d |-> dd]
    ELSE IF bb.err # Nil
    THEN [err |-> bb.err, ok |-> FALSE, b |-> bb, d |-> dd]
    ELSE
        LET v == Validate(dd, mapOrder, rootOrder)
        IN IF v.err # Nil
           THEN [err |-> v.err, ok |-> FALSE, b |-> bb, d |-> v.d]
           ELSE [err |-> Nil, ok |-> TRUE, b |-> [bb EXCEPT !.built = TRUE], d |-> v.d]

\* Ascending / descending enumeration of a set of NodeIDs.
RECURSIVE Ascending(_)
Ascending(S) == IF S = {} THEN <<>> ELSE <<Min(S)>> \o Ascending(S \ {Min(S)})

RECURSIVE Descending(_)
Descending(S) == IF S = {} THEN <<>> ELSE <<Max(S)>> \o Descending(S \ {Max(S)})

\* Orders in which a range over the node map is taken to deliver all nodes
\* (acyclic) and the parentless nodes (calculateTopoSort).
MapOrders(dd) == {Ascending(DOMAIN dd.nodes), Descending(DOMAIN dd.nodes)}
RootOrders(dd) == SeqPerms(Roots(dd))

(***************************************************************************)
(* qc/simulator: Simulator, RunSerial, RunParallelChan, RunParallelStatic  *)
(***************************************************************************)
DefaultShots == 1024

\* Errors of the engine: a RunOnce error is named by the call that failed;
\* RunSerial wraps it with the shot ordinal, RunParallelChan with the worker.
NoError == [kind |-> "nil", idx |-> 0, cause |-> 0]
RunOnceErr(callNum) == [kind |-> "runonce", idx |-> 0, cause |-> callNum]
ShotFailed(shot, e) == [kind |-> "shot failed", idx |-> shot, cause |-> e.cause]
WorkerFailed(id, e) == [kind |-> "worker failed", idx |-> id, cause |-> e.cause]

\* Keys the modelled runner returns.
Outcomes == {"0", "1"}

NewSimulator(optShots, optWorkers) ==
    LET shots == IF optShots <= 0 THEN DefaultShots ELSE optShots
        workers0 == IF optWorkers <= 0 THEN NumCPU ELSE optWorkers
        workers == IF workers0 > shots THEN shots ELSE workers0
    IN [Shots |-> shots, Workers |-> workers]

\* Locals of RunParallelStatic.
StaticShots == IF Shots <= 0 THEN DefaultShots ELSE Shots
StaticWorkers ==
    LET workers0 == IF Workers <= 0 THEN NumCPU ELSE Workers
    IN IF workers0 > StaticShots THEN StaticShots ELSE workers0
\* A chunk size without the extra shot of the first workers.
StaticCntNoExtra(w) == StaticShots \div StaticWorkers

StaticCnt(w) ==
    LET per == StaticShots \div StaticWorkers
        extra == StaticShots % StaticWorkers
    IN IF w < extra THEN per + 1 ELSE per

\* Worker goroutines of the call (wid / w of the spawning loops).
WorkerIds ==
    CASE strategy = "chan" -> 0..(Workers - 1)
      [] strategy = "static" -> 0..(StaticWorkers - 1)
      [] OTHER -> {}

\* N of the call.
N == IF strategy = "static" THEN StaticShots ELSE Shots

\* mu.Lock() returns only while nobody holds the mutex.
MuLockNoMutex(w) == TRUE

MuLock(w) == mu = -1

\* A send that overwrites the buffered error when the channel is full.
TrySendReplace(ch, capacity, e) == IF Len(ch) < capacity THEN Append(ch, e) ELSE <<e>>

\* Non-blocking send "select { case errChan <- err: default: }".
TrySend(ch, capacity, e) == IF Len(ch) < capacity THEN Append(ch, e) ELSE ch

ErrChanCap == IF strategy = "chan" THEN Workers ELSE 1

RECURSIVE SumHist(_, _)
SumHist(h, keys) ==
    IF keys = {} THEN 0
    ELSE LET k == CHOOSE x \in keys : TRUE
         IN h[k] + SumHist(h, keys \ {k})

HistTotal == SumHist(hist, DOMAIN hist)

\* The parts of the state a specification does not use stay at these values.
ShotsIdle ==
    /\ strategy = "none" /\ Shots = 0 /\ Workers = 0
    /\ hist = <<>> /\ mu = -1 /\ jobs = 0 /\ errChan = <<>>
    /\ wpc = <<>> /\ wkey = <<>> /\ wtmp = <<>> /\ wn = <<>> /\ workerErr = <<>>
    /\ mpc = "idle" /\ si = 0 /\ retErr = NoError /\ callCount = 0 /\ failCount = 0

BuildIdle ==
    /\ d = New(0, 0) /\ b = newBuilder /\ circ = NoCircuit
    /\ ret = [op |-> "idle", err |-> Nil, ok |-> FALSE]
    /\ idCtr = 0 /\ log = <<>>

OpsIdle == heap = <<>> /\ got = <<>> /\ muts = 0

RegIdle ==
    /\ factories = <<>> /\ rmu = <<>> /\ gpc = <<>> /\ gcall = <<>> /\ gloc = <<>>
    /\ gret = <<>> /\ gabs = <<>> /\ absMap = <<>> /\ regInit = <<>> /\ rcalls = 0

QSimIdle ==
    /\ totalExecutions = 0 /\ successfulRuns = 0 /\ failedRuns = 0
    /\ qpc = <<>> /\ qctx = <<>> /\ qi = <<>> /\ qstartc = <<>> /\ qseen = <<>>
    /\ qafter = <<>> /\ qret = <<>> /\ qdid = <<>> /\ rspc = "idle"

SeedIdle == sseed = <<>> /\ shist = <<>> /\ sshot = <<>>

ExtIdle == RegIdle /\ QSimIdle /\ SeedIdle

RunIdle ==
    /\ backend = "none" /\ amplitudes = <<>> /\ classicalBits = <<>>
    /\ written = <<>> /\ prevAmps = <<>> /\ lastGate = <<>>
    /\ rpc = "idle" /\ result = <<>>

InitShots ==
    /\ strategy \in {"serial", "chan", "static"}
    /\ \E optShots \in 1..MaxShots, optWorkers \in 0..MaxWorkers :
          /\ Shots = NewSimulator(optShots, optWorkers).Shots
          /\ Workers = NewSimulator(optShots, optWorkers).Workers
    /\ hist = [k \in Outcomes |-> 0]
    /\ mu = -1
    /\ jobs = IF strategy = "chan" THEN Shots ELSE 0
    /\ errChan = <<>>
    /\ wpc = [w \in WorkerIds |-> IF strategy = "chan" THEN "recv" ELSE "loop"]
    /\ wkey = [w \in WorkerIds |-> ""]
    /\ wtmp = [w \in WorkerIds |-> 0]
    /\ wn = [w \in WorkerIds |-> IF strategy = "static" THEN StaticCnt(w) ELSE 0]
    /\ workerErr = [w \in WorkerIds |-> NoError]
    /\ mpc = IF strategy = "serial" THEN "serial" ELSE "wait"
    /\ si = 0
    /\ retErr = NoError
    /\ callCount = 0
    /\ failCount = 0
    /\ BuildIdle
    /\ RunIdle
    /\ OpsIdle
    /\ ExtIdle

\* RunSerial that records a failed shot and goes on with the next one.
SerialStepContinue ==
    /\ mpc = "serial"
    /\ IF si < Shots
       THEN \/ /\ callCount' = callCount + 1
               /\ failCount' = failCount + 1
               /\ retErr' = ShotFailed(si + 1, RunOnceErr(callCount + 1))
               /\ si' = si + 1
               /\ UNCHANGED <<hist, mpc>>
            \/ \E key \in Outcomes :
                  /\ callCount' = callCount + 1
                  /\ hist' = [hist EXCEPT ![key] = @ + 1]
                  /\ si' = si + 1
                  /\ UNCHANGED <<failCount, retErr, mpc>>
       ELSE /\ mpc' = "returned"
            /\ UNCHANGED <<hist, si, retErr, callCount, failCount>>
    /\ UNCHANGED <<strategy, Shots, Workers, mu, jobs, errChan, wpc, wkey, wtmp, wn, workerErr>>
    /\ UNCHANGED buildVars
    /\ UNCHANGED runVars
    /\ UNCHANGED opsVars
    /\ UNCHANGED extVars

\* RunSerial: one iteration of "for i := range s.Shots", or the final return.
SerialStep ==
    /\ mpc = "serial"
    /\ IF si < Shots
       THEN \/ /\ callCount' = callCount + 1
               /\ failCount' = failCount + 1
               /\ retErr' = ShotFailed(si + 1, RunOnceErr(callCount + 1))
               /\ mpc' = "returned"
               /\ UNCHANGED <<hist, si>>
            \/ \E key \in Outcomes :
                  /\ callCount' = callCount + 1
                  /\ hist' = [hist EXCEPT ![key] = @ + 1]
                  /\ si' = si + 1
                  /\ UNCHANGED <<failCount, retErr, mpc>>
       ELSE /\ mpc' = "returned"
            /\ UNCHANGED <<hist, si, retErr, callCount, failCount>>
    /\ UNCHANGED <<strategy, Shots, Workers, mu, jobs, errChan, wpc, wkey, wtmp, wn, workerErr>>
    /\ UNCHANGED buildVars
    /\ UNCHANGED runVars
    /\ UNCHANGED opsVars
    /\ UNCHANGED extVars

\* RunParallelChan worker: "for range jobs" receives a job or sees the closed,
\* empty channel; a worker that already failed drops the job it received.
ChanRecv(w) ==
    /\ strategy = "chan"
    /\ wpc[w] = "recv"
    /\ IF jobs > 0
       THEN /\ jobs' = jobs - 1
            /\ wpc' = [wpc EXCEPT ![w] = IF workerErr[w] # NoError THEN "recv" ELSE "run"]
       ELSE /\ wpc' = [wpc EXCEPT ![w] = "report"]
            /\ UNCHANGED jobs
    /\ UNCHANGED <<strategy, Shots, Workers, hist, mu, errChan, wkey, wtmp, wn,
                   workerErr, mpc, si, retErr, callCount, failCount>>
    /\ UNCHANGED buildVars
    /\ UNCHANGED runVars
    /\ UNCHANGED opsVars
    /\ UNCHANGED extVars

\* RunParallelStatic worker: head of "for range n".
StaticLoop(w) ==
    /\ strategy = "static"
    /\ wpc[w] = "loop"
    /\ IF wn[w] > 0
       THEN /\ wn' = [wn EXCEPT ![w] = @ - 1]
            /\ wpc' = [wpc EXCEPT ![w] = "run"]
       ELSE /\ wpc' = [wpc EXCEPT ![w] = "done"]
            /\ UNCHANGED wn
    /\ UNCHANGED <<strategy, Shots, Workers, hist, mu, jobs, errChan, wkey, wtmp,
                   workerErr, mpc, si, retErr, callCount, failCount>>
    /\ UNCHANGED buildVars
    /\ UNCHANGED runVars
    /\ UNCHANGED opsVars
    /\ UNCHANGED extVars

\* A worker whose static loop goes on with its chunk after a failed RunOnce.
WorkerRunOnceKeepGoing(w) ==
    /\ wpc[w] = "run"
    /\ callCount' = callCount + 1
    /\ \/ /\ failCount' = failCount + 1
          /\ IF strategy = "chan"
             THEN /\ workerErr' = [workerErr EXCEPT ![w] = WorkerFailed(w, RunOnceErr(callCount + 1))]
                  /\ wpc' = [wpc EXCEPT ![w] = "recv"]
                  /\ UNCHANGED errChan
             ELSE /\ errChan' = TrySend(errChan, ErrChanCap, RunOnceErr(callCount + 1))
                  /\ wpc' = [wpc EXCEPT ![w] = "loop"]
                  /\ UNCHANGED workerErr
          /\ UNCHANGED wkey
       \/ \E key \in Outcomes :
             /\ wkey' = [wkey EXCEPT ![w] = key]
             /\ wpc' = [wpc EXCEPT ![w] = "lock"]
             /\ UNCHANGED <<failCount, workerErr, errChan>>
    /\ UNCHANGED <<strategy, Shots, Workers, hist, mu, jobs, wtmp, wn, mpc, si, retErr>>
    /\ UNCHANGED buildVars
    /\ UNCHANGED runVars
    /\ UNCHANGED opsVars
    /\ UNCHANGED extVars

\* A worker whose error send "errChan <- err" has no default case: with the
\* buffer full the goroutine stays in the send.
WorkerRunOnceBlockingSend(w) ==
    /\ wpc[w] = "run"
    /\ callCount' = callCount + 1
    /\ \/ /\ failCount' = failCount + 1
          /\ IF strategy = "chan"
             THEN /\ workerErr' = [workerErr EXCEPT ![w] = WorkerFailed(w, RunOnceErr(callCount + 1))]
                  /\ wpc' = [wpc EXCEPT ![w] = "recv"]
                  /\ UNCHANGED errChan
             ELSE IF Len(errChan) < ErrChanCap
                  THEN /\ errChan' = Append(errChan, RunOnceErr(callCount + 1))
                       /\ wpc' = [wpc EXCEPT ![w] = "done"]
                       /\ UNCHANGED workerErr
                  ELSE /\ wpc' = [wpc EXCEPT ![w] = "send"]
                       /\ UNCHANGED <<errChan, workerErr>>
          /\ UNCHANGED wkey
       \/ \E key \in Outcomes :
             /\ wkey' = [wkey EXCEPT ![w] = key]
             /\ wpc' = [wpc EXCEPT ![w] = "lock"]
             /\ UNCHANGED <<failCount, workerErr, errChan>>
    /\ UNCHANGED <<strategy, Shots, Workers, hist, mu, jobs, wtmp, wn, mpc, si, retErr>>
    /\ UNCHANGED buildVars
    /\ UNCHANGED runVars
    /\ UNCHANGED opsVars
    /\ UNCHANGED extVars

\* s.runner.RunOnce(c) in a worker: an error or a key.
WorkerRunOnce(w) ==
    /\ wpc[w] = "run"
    /\ callCount' = callCount + 1
    /\ \/ /\ failCount' = failCount + 1
          /\ IF strategy = "chan"
             THEN /\ workerErr' = [workerErr EXCEPT ![w] = WorkerFailed(w, RunOnceErr(callCount + 1))]
                  /\ wpc' = [wpc EXCEPT ![w] = "recv"]
                  /\ UNCHANGED errChan
             ELSE /\ errChan' = TrySend(errChan, ErrChanCap, RunOnceErr(callCount + 1))
                  /\ wpc' = [wpc EXCEPT ![w] = "done"]
                  /\ UNCHANGED workerErr
          /\ UNCHANGED wkey
       \/ \E key \in Outcomes :
             /\ wkey' = [wkey EXCEPT ![w] = key]
             /\ wpc' = [wpc EXCEPT ![w] = "lock"]
             /\ UNCHANGED <<failCount, workerErr, errChan>>
    /\ UNCHANGED <<strategy, Shots, Workers, hist, mu, jobs, wtmp, wn, mpc, si, retErr>>
    /\ UNCHANGED buildVars
    /\ UNCHANGED runVars
    /\ UNCHANGED opsVars
    /\ UNCHANGED extVars

\* mu.Lock() and the load of hist[key]++.
WorkerLock(w) ==
    /\ wpc[w] = "lock"
    /\ MuLock(w)
    /\ mu' = w
    /\ wtmp' = [wtmp EXCEPT ![w] = hist[wkey[w]]]
    /\ wpc' = [wpc EXCEPT ![w] = "store"]
    /\ UNCHANGED <<strategy, Shots, Workers, hist, jobs, errChan, wkey, wn,
                   workerErr, mpc, si, retErr, callCount, failCount>>
    /\ UNCHANGED buildVars
    /\ UNCHANGED runVars
    /\ UNCHANGED opsVars
    /\ UNCHANGED extVars

\* The store of hist[key]++ and mu.Unlock().
WorkerStore(w) ==
    /\ wpc[w] = "store"
    /\ hist' = [hist EXCEPT ![wkey[w]] = wtmp[w] + 1]
    /\ mu' = -1
    /\ wpc' = [wpc EXCEPT ![w] = IF strategy = "chan" THEN "recv" ELSE "loop"]
    /\ UNCHANGED <<strategy, Shots, Workers, jobs, errChan, wkey, wtmp, wn,
                   workerErr, mpc, si, retErr, callCount, failCount>>
    /\ UNCHANGED buildVars
    /\ UNCHANGED runVars
    /\ UNCHANGED opsVars
    /\ UNCHANGED extVars

\* RunParallelChan worker after the loop: report workerErr, then wg.Done().
ChanReport(w) ==
    /\ strategy = "chan"
    /\ wpc[w] = "report"
    /\ errChan' = IF workerErr[w] # NoError
                  THEN TrySend(errChan, ErrChanCap, workerErr[w])
                  ELSE errChan
    /\ wpc' = [wpc EXCEPT ![w] = "done"]
    /\ UNCHANGED <<strategy, Shots, Workers, hist, mu, jobs, wkey, wtmp, wn,
                   workerErr, mpc, si, retErr, callCount, failCount>>
    /\ UNCHANGED buildVars
    /\ UNCHANGED runVars
    /\ UNCHANGED opsVars
    /\ UNCHANGED extVars

\* wg.Wait(), close(errChan), the range over errChan and the return.
WaitAndReturn ==
    /\ mpc = "wait"
    /\ \A w \in WorkerIds : wpc[w] = "done"
    /\ retErr' = IF errChan = <<>> THEN NoError ELSE Head(errChan)
    /\ mpc' = "returned"
    /\ UNCHANGED <<strategy, Shots, Workers, hist, mu, jobs, errChan, wpc, wkey,
                   wtmp, wn, workerErr, si, callCount, failCount>>
    /\ UNCHANGED buildVars
    /\ UNCHANGED runVars
    /\ UNCHANGED opsVars
    /\ UNCHANGED extVars

NextShots ==
    \/ SerialStep
    \/ \E w \in WorkerIds : ChanRecv(w)
    \/ \E w \in WorkerIds : StaticLoop(w)
    \/ \E w \in WorkerIds : WorkerRunOnce(w)
    \/ \E w \in WorkerIds : WorkerLock(w)
    \/ \E w \in WorkerIds : WorkerStore(w)
    \/ \E w \in WorkerIds : ChanReport(w)
    \/ WaitAndReturn

SpecShots == InitShots /\ [][NextShots]_vars

\* SpecShots where a step is eventually taken while some goroutine of the call
\* can take one (the Go scheduler runs every runnable goroutine).
SpecShotsFair == SpecShots /\ WF_vars(NextShots)

(***************************************************************************)
(* SpecStatic: defaults and partition of RunParallelStatic                 *)
(***************************************************************************)
\* The Simulator comes from NewSimulator or is a literal whose exported
\* fields hold any values; the call is about to spawn its workers.
InitStatic ==
    /\ strategy = "static"
    /\ \E optShots \in -1..PartShots, optWorkers \in -1..PartWorkers :
          \/ /\ Shots = NewSimulator(optShots, optWorkers).Shots
             /\ Workers = NewSimulator(optShots, optWorkers).Workers
          \/ /\ Shots = optShots
             /\ Workers = optWorkers
    /\ hist = [k \in Outcomes |-> 0]
    /\ mu = -1 /\ jobs = 0 /\ errChan = <<>>
    /\ wpc = <<>> /\ wkey = <<>> /\ wtmp = <<>> /\ wn = <<>> /\ workerErr = <<>>
    /\ mpc = "spawn"
    /\ si = 0
    /\ retErr = NoError /\ callCount = 0 /\ failCount = 0
    /\ BuildIdle
    /\ RunIdle
    /\ OpsIdle
    /\ ExtIdle

\* One iteration of "for w := range workers": cnt is computed and the
\* goroutine is started with it; after the last one the caller waits.
StaticSpawn ==
    /\ mpc = "spawn"
    /\ IF si < StaticWorkers
       THEN /\ wn' = (si :> StaticCnt(si)) @@ wn
            /\ wpc' = (si :> "loop") @@ wpc
            /\ si' = si + 1
            /\ UNCHANGED mpc
       ELSE /\ mpc' = "wait"
            /\ UNCHANGED <<wn, wpc, si>>
    /\ UNCHANGED <<strategy, Shots, Workers, hist, mu, jobs, errChan, wkey, wtmp,
                   workerErr, retErr, callCount, failCount>>
    /\ UNCHANGED buildVars
    /\ UNCHANGED runVars
    /\ UNCHANGED opsVars
    /\ UNCHANGED extVars

NextStatic == StaticSpawn

SpecStatic == InitStatic /\ [][NextStatic]_vars

(***************************************************************************)
(* qc/simulator/qsim/state.go: the statevector kernel                      *)
(*                                                                         *)
(* An amplitude is 0 or a label 1, 2, ... standing for a non-zero complex  *)
(* number; the kernels modelled here only move amplitudes or clear them.   *)
(***************************************************************************)
Pow2(n) == 2 ^ n

\* (i & (1 << q)) != 0
BitSet(i, q) == (i \div Pow2(q)) % 2 = 1

NewQuantumState(numQubits, numClassical) ==
    [numQubits |-> numQubits,
     amplitudes |-> [i \in 0..(Pow2(numQubits) - 1) |-> IF i = 0 THEN 1 ELSE 0],
     classicalBits |-> [c \in 1..numClassical |-> FALSE]]

SwapAmps(a, i, j) == [a EXCEPT ![i] = a[j], ![j] = a[i]]

InvalidQubit == [kind |-> "invalid qubit", q |-> -1, g |-> ""]

\* The loop of applyPauliX over all indices, in place.
RECURSIVE applyPauliXLoop(_, _, _)
applyPauliXLoop(a, i, qubit) ==
    IF i \notin DOMAIN a THEN a
    ELSE applyPauliXLoop(IF ~BitSet(i, qubit) THEN SwapAmps(a, i, i + Pow2(qubit)) ELSE a,
                         i + 1, qubit)

applyPauliX(a, numQubits, qubit) ==
    IF qubit >= numQubits THEN [err |-> InvalidQubit, a |-> a]
    ELSE [err |-> Nil, a |-> applyPauliXLoop(a, 0, qubit)]

\* The loop of applyCNOT over all indices, in place.
RECURSIVE applyCNOTLoop(_, _, _, _)
applyCNOTLoop(a, i, control, target) ==
    IF i \notin DOMAIN a THEN a
    ELSE applyCNOTLoop(
             IF BitSet(i, control) /\ ~BitSet(i, target)
             THEN SwapAmps(a, i, i + Pow2(target)) ELSE a,
             i + 1, control, target)

applyCNOT(a, numQubits, control, target) ==
    IF control >= numQubits \/ target >= numQubits
    THEN [err |-> InvalidQubit, a |-> a]
    ELSE [err |-> Nil, a |-> applyCNOTLoop(a, 0, control, target)]

\* The loop of applySwap without the "i < j" test.
RECURSIVE applySwapLoopBothWays(_, _, _, _)
applySwapLoopBothWays(a, i, qubit1, qubit2) ==
    IF i \notin DOMAIN a THEN a
    ELSE
        LET bit1 == BitSet(i, qubit1)
            bit2 == BitSet(i, qubit2)
            j == IF bit1 THEN i - Pow2(qubit1) + Pow2(qubit2)
                         ELSE i - Pow2(qubit2) + Pow2(qubit1)
        IN applySwapLoopBothWays(
               IF bit1 # bit2 THEN SwapAmps(a, i, j) ELSE a,
               i + 1, qubit1, qubit2)

\* The loop of applySwap over all indices, in place.
RECURSIVE applySwapLoop(_, _, _, _)
applySwapLoop(a, i, qubit1, qubit2) ==
    IF i \notin DOMAIN a THEN a
    ELSE
        LET bit1 == BitSet(i, qubit1)
            bit2 == BitSet(i, qubit2)
            j == IF bit1 THEN i - Pow2(qubit1) + Pow2(qubit2)
                         ELSE i - Pow2(qubit2) + Pow2(qubit1)
        IN applySwapLoop(
               IF bit1 # bit2 /\ i < j THEN SwapAmps(a, i, j) ELSE a,
               i + 1, qubit1, qubit2)

applySwap(a, numQubits, qubit1, qubit2) ==
    IF qubit1 >= numQubits \/ qubit2 >= numQubits
    THEN [err |-> InvalidQubit, a |-> a]
    ELSE [err |-> Nil, a |-> applySwapLoop(a, 0, qubit1, qubit2)]

\* The loop of applyToffoli over all indices, in place.
RECURSIVE applyToffoliLoop(_, _, _, _, _)
applyToffoliLoop(a, i, control1, control2, target) ==
    IF i \notin DOMAIN a THEN a
    ELSE applyToffoliLoop(
             IF BitSet(i, control1) /\ BitSet(i, control2) /\ ~BitSet(i, target)
             THEN SwapAmps(a, i, i + Pow2(target)) ELSE a,
             i + 1, control1, control2, target)

applyToffoli(a, numQubits, control1, control2, target) ==
    IF control1 >= numQubits \/ control2 >= numQubits \/ target >= numQubits
    THEN [err |-> InvalidQubit, a |-> a]
    ELSE [err |-> Nil, a |-> applyToffoliLoop(a, 0, control1, control2, target)]

\* The loop of applyFredkin over all indices, in place.
RECURSIVE applyFredkinLoop(_, _, _, _, _)
applyFredkinLoop(a, i, control, target1, target2) ==
    IF i \notin DOMAIN a THEN a
    ELSE
        LET bit1 == BitSet(i, target1)
            bit2 == BitSet(i, target2)
            j == IF bit1 THEN i - Pow2(target1) + Pow2(target2)
                         ELSE i - Pow2(target2) + Pow2(target1)
        IN applyFredkinLoop(
               IF BitSet(i, control) /\ bit1 # bit2 THEN SwapAmps(a, i, j) ELSE a,
               i + 1, control, target1, target2)

applyFredkin(a, numQubits, control, target1, target2) ==
    IF control >= numQubits \/ target1 >= numQubits \/ target2 >= numQubits
    THEN [err |-> InvalidQubit, a |-> a]
    ELSE [err |-> Nil, a |-> applyFredkinLoop(a, 0, control, target1, target2)]

\* probOne of Measure: the sum of |a_i|^2 over the indices with the bit
\* set, as a fraction; every non-zero amplitude carries the same weight.
probOne(a, qubit) ==
    [num |-> Cardinality({i \in DOMAIN a : a[i] # 0 /\ BitSet(i, qubit)}),
     den |-> Cardinality({i \in DOMAIN a : a[i] # 0})]

\* rand.Float64() returns k / RandGrid for some k in 0..RandGrid-1.
RandSamples == 0..(RandGrid - 1)

\* Measure where the comparison is "<=" instead of "<".
MeasureLe(a, numQubits, qubit, k) ==
    IF qubit >= numQubits THEN [result |-> FALSE, a |-> a]
    ELSE LET p == probOne(a, qubit)
             one == k * p.den <= p.num * RandGrid
         IN [result |-> one,
             a |-> [i \in DOMAIN a |-> IF BitSet(i, qubit) # one THEN 0 ELSE a[i]]]

\* Measure with rand.Float64() = k / RandGrid: result = (r < probOne), then
\* the collapse; renormalising divides the surviving amplitudes by a
\* positive number and so keeps them non-zero.
Measure(a, numQubits, qubit, k) ==
    IF qubit >= numQubits THEN [result |-> FALSE, a |-> a]
    ELSE LET p == probOne(a, qubit)
             one == k * p.den < p.num * RandGrid
         IN [result |-> one,
             a |-> [i \in DOMAIN a |-> IF BitSet(i, qubit) # one THEN 0 ELSE a[i]]]

(***************************************************************************)
(* SpecKernel: a kernel applied to a statevector                           *)
(***************************************************************************)
\* Statevectors the kernels are applied to: at most one amplitude labelled 1
\* and at most one labelled 2, all others zero.
KernelStates ==
    LET Idx == 0..(Pow2(KernelQubits) - 1)
        At == {pq \in (Idx \cup {-1}) \X (Idx \cup {-1}) : pq[1] = pq[2] => pq[1] = -1}
    IN {[i \in Idx |-> IF i = pq[1] THEN 1 ELSE IF i = pq[2] THEN 2 ELSE 0] : pq \in At}

NoGate == [name |-> "", qubits |-> <<>>, err |-> Nil]

InitKernel ==
    /\ amplitudes \in KernelStates
    /\ prevAmps = amplitudes
    /\ lastGate = NoGate
    /\ backend = "none" /\ written = <<>>
    /\ classicalBits = NewQuantumState(KernelQubits, MaxClbits).classicalBits
    /\ rpc = "idle" /\ result = <<>>
    /\ BuildIdle
    /\ ShotsIdle
    /\ OpsIdle
    /\ ExtIdle

\* Absolute qubits handed to a three-qubit gate: pairwise distinct (the DAG
\* rejects duplicates); KernelQubits itself is the first invalid index.
Triples ==
    {t \in [1..3 -> 0..KernelQubits] : \A i, j \in 1..3 : t[i] = t[j] => i = j}

\* The gate applications driven: a gate on a fresh statevector, or the gate
\* applied last once more on the same qubits.
Applies(name, qubits) ==
    lastGate = NoGate \/ (lastGate.name = name /\ lastGate.qubits = qubits)

\* ApplyGate(FREDKIN, qubits).
KernelFredkin(qubits) ==
    /\ Applies("FREDKIN", qubits)
    /\ LET r == applyFredkin(amplitudes, KernelQubits, qubits[1], qubits[2], qubits[3])
       IN /\ amplitudes' = r.a
          /\ lastGate' = [name |-> "FREDKIN", qubits |-> qubits, err |-> r.err]
    /\ prevAmps' = amplitudes
    /\ UNCHANGED <<backend, classicalBits, written, rpc, result>>
    /\ UNCHANGED buildVars
    /\ UNCHANGED shotVars
    /\ UNCHANGED opsVars
    /\ UNCHANGED extVars

\* ApplyGate(X, qubits).
KernelX(qubit) ==
    /\ Applies("X", <<qubit>>)
    /\ LET r == applyPauliX(amplitudes, KernelQubits, qubit)
       IN /\ amplitudes' = r.a
          /\ lastGate' = [name |-> "X", qubits |-> <<qubit>>, err |-> r.err]
    /\ prevAmps' = amplitudes
    /\ UNCHANGED <<backend, classicalBits, written, rpc, result>>
    /\ UNCHANGED buildVars
    /\ UNCHANGED shotVars
    /\ UNCHANGED opsVars
    /\ UNCHANGED extVars

\* Absolute qubits handed to a two-qubit gate: distinct and in range.
Pairs ==
    {t \in [1..2 -> 0..(KernelQubits - 1)] : t[1] # t[2]}

\* Absolute qubits handed to TOFFOLI: pairwise distinct and in range.
ValidTriples == {t \in Triples : \A i \in 1..3 : t[i] < KernelQubits}

\* ApplyGate(CNOT, qubits).
KernelCNOT(qubits) ==
    /\ Applies("CNOT", qubits)
    /\ LET r == applyCNOT(amplitudes, KernelQubits, qubits[1], qubits[2])
       IN /\ amplitudes' = r.a
          /\ lastGate' = [name |-> "CNOT", qubits |-> qubits, err |-> r.err]
    /\ prevAmps' = amplitudes
    /\ UNCHANGED <<backend, classicalBits, written, rpc, result>>
    /\ UNCHANGED buildVars
    /\ UNCHANGED shotVars
    /\ UNCHANGED opsVars
    /\ UNCHANGED extVars

\* ApplyGate(SWAP, qubits).
KernelSwap(qubits) ==
    /\ Applies("SWAP", qubits)
    /\ LET r == applySwap(amplitudes, KernelQubits, qubits[1], qubits[2])
       IN /\ amplitudes' = r.a
          /\ lastGate' = [name |-> "SWAP", qubits |-> qubits, err |-> r.err]
    /\ prevAmps' = amplitudes
    /\ UNCHANGED <<backend, classicalBits, written, rpc, result>>
    /\ UNCHANGED buildVars
    /\ UNCHANGED shotVars
    /\ UNCHANGED opsVars
    /\ UNCHANGED extVars

\* ApplyGate(TOFFOLI, qubits).
KernelToffoli(qubits) ==
    /\ Applies("TOFFOLI", qubits)
    /\ LET r == applyToffoli(amplitudes, KernelQubits, qubits[1], qubits[2], qubits[3])
       IN /\ amplitudes' = r.a
          /\ lastGate' = [name |-> "TOFFOLI", qubits |-> qubits, err |-> r.err]
    /\ prevAmps' = amplitudes
    /\ UNCHANGED <<backend, classicalBits, written, rpc, result>>
    /\ UNCHANGED buildVars
    /\ UNCHANGED shotVars
    /\ UNCHANGED opsVars
    /\ UNCHANGED extVars

\* One iteration of the operation loop of RunOnceWithContext on
\* MEASURE(qubit -> cbit): Measure, then the store of the classical bit.
KernelMeasure(qubit, cbit) ==
    /\ Applies("MEASURE", <<qubit, cbit>>)
    /\ \E k \in RandSamples :
          LET m == Measure(amplitudes, KernelQubits, qubit, k)
          IN /\ amplitudes' = m.a
             /\ classicalBits' =
                   IF cbit >= 0 /\ cbit < Len(classicalBits)
                   THEN [classicalBits EXCEPT ![cbit + 1] = m.result]
                   ELSE classicalBits
             /\ lastGate' = [name |-> "MEASURE", qubits |-> <<qubit, cbit>>, err |-> Nil,
                             result |-> m.result, bits |-> classicalBits]
    /\ prevAmps' = amplitudes
    /\ UNCHANGED <<backend, written, rpc, result>>
    /\ UNCHANGED buildVars
    /\ UNCHANGED shotVars
    /\ UNCHANGED opsVars
    /\ UNCHANGED extVars

NextKernel ==
    \/ \E qubit \in 0..KernelQubits, cbit \in 0..(MaxClbits - 1) : KernelMeasure(qubit, cbit)
    \/ \E qubits \in Triples : KernelFredkin(qubits)
    \/ \E qubit \in 0..KernelQubits : KernelX(qubit)
    \/ \E qubits \in Pairs : KernelCNOT(qubits)
    \/ \E qubits \in Pairs : KernelSwap(qubits)
    \/ \E qubits \in ValidTriples : KernelToffoli(qubits)

SpecKernel == InitKernel /\ [][NextKernel]_vars

(***************************************************************************)
(* qc/simulator/qsim/runner.go and qc/simulator/itsu: RunOnce              *)
(***************************************************************************)
\* formatResult: the bits from the highest index down to index 0.
RECURSIVE formatResultLoop(_, _, _)
formatResultLoop(bits, i, out) ==
    IF i < 1 THEN out
    ELSE formatResultLoop(bits, i - 1, Append(out, IF bits[i] THEN "1" ELSE "0"))

formatResult(bits) ==
    IF Len(bits) = 0 THEN <<"0">>
    ELSE formatResultLoop(bits, Len(bits), <<>>)

\* string(cbits) of the itsu runOnce: byte i is classical bit i.
itsuString(cbits) == [i \in DOMAIN cbits |-> IF cbits[i] THEN "1" ELSE "0"]

InitRun ==
    /\ backend \in {"qsim", "itsu"}
    /\ \E k \in 0..MaxClbits :
          /\ amplitudes = NewQuantumState(RunQubits, k).amplitudes
          /\ classicalBits = NewQuantumState(RunQubits, k).classicalBits
    /\ written = <<>>
    /\ prevAmps = amplitudes
    /\ lastGate = NoGate
    /\ rpc = "ops"
    /\ result = <<>>
    /\ BuildIdle
    /\ ShotsIdle
    /\ OpsIdle
    /\ ExtIdle

\* One iteration of the operation loop on an X operation (qsim:
\* ApplyGate -> applyPauliX; itsu: sim.X of the simulator library).
RunX(qubit) ==
    /\ rpc = "ops"
    /\ amplitudes' = applyPauliX(amplitudes, RunQubits, qubit).a
    /\ prevAmps' = amplitudes
    /\ lastGate' = [name |-> "X", qubits |-> <<qubit>>, err |-> Nil]
    /\ UNCHANGED <<backend, classicalBits, written, rpc, result>>
    /\ UNCHANGED buildVars
    /\ UNCHANGED shotVars
    /\ UNCHANGED opsVars
    /\ UNCHANGED extVars

\* One iteration of the operation loop on MEASURE(qubit -> cbit); cbit is 0-based.
RunMeasure(qubit, cbit) ==
    /\ rpc = "ops"
    /\ cbit < Len(classicalBits)
    /\ \E k \in RandSamples :
          LET m == Measure(amplitudes, RunQubits, qubit, k)
          IN /\ amplitudes' = m.a
             /\ classicalBits' = [classicalBits EXCEPT ![cbit + 1] = m.result]
             /\ written' = (cbit :> m.result) @@ written
    /\ prevAmps' = amplitudes
    /\ lastGate' = [name |-> "MEASURE", qubits |-> <<qubit>>, err |-> Nil]
    /\ UNCHANGED <<backend, rpc, result>>
    /\ UNCHANGED buildVars
    /\ UNCHANGED shotVars
    /\ UNCHANGED opsVars
    /\ UNCHANGED extVars

\* The end of the operation loop: the outcome string is assembled.
RunFinish ==
    /\ rpc = "ops"
    /\ result' = IF backend = "qsim" THEN formatResult(classicalBits)
                                      ELSE itsuString(classicalBits)
    /\ rpc' = "done"
    /\ UNCHANGED <<backend, amplitudes, classicalBits, written, prevAmps, lastGate>>
    /\ UNCHANGED buildVars
    /\ UNCHANGED shotVars
    /\ UNCHANGED opsVars
    /\ UNCHANGED extVars

NextRun ==
    \/ \E qubit \in 0..(RunQubits - 1) : RunX(qubit)
    \/ \E qubit \in 0..(RunQubits - 1), cbit \in 0..(MaxClbits - 1) : RunMeasure(qubit, cbit)
    \/ RunFinish

SpecRun == InitRun /\ [][NextRun]_vars

(***************************************************************************)
(* Spec: one builder                                                       *)
(***************************************************************************)
Init ==
    /\ d = New(NumQubits, NumClbits)
    /\ b = newBuilder
    /\ circ = NoCircuit
    /\ ret = [op |-> "New", err |-> Nil, ok |-> TRUE]
    /\ idCtr \in 0..MaxIdStart
    /\ log = <<>>
    /\ ShotsIdle
    /\ RunIdle
    /\ OpsIdle
    /\ ExtIdle

\* H / X / S / CNOT / CZ / SWAP / Toffoli / Fredkin / Measure.
GateCall(c) ==
    /\ ret' = [op |-> "gate", err |-> Nil, ok |-> TRUE]
    /\ IF checkState(b)
       THEN UNCHANGED <<d, b, idCtr, log>>
       ELSE LET r == DagCall(d, c, idCtr + 1)
            IN IF r.err # Nil
               THEN /\ b' = bail(b, r.err)
                    /\ UNCHANGED <<d, idCtr, log>>
               ELSE /\ \/ Len(log) < MaxOps
                       \/ IsPrefix(Append(log, Accepted(c)), AcceptedSeq(LayoutExample))
                    /\ d' = r.d
                    /\ idCtr' = idCtr + 1
                    /\ log' = Append(log, Accepted(c))
                    /\ UNCHANGED b
    /\ UNCHANGED circ
    /\ UNCHANGED shotVars
    /\ UNCHANGED runVars
    /\ UNCHANGED opsVars
    /\ UNCHANGED extVars

BuildDAG ==
    /\ \E mapOrder \in MapOrders(d), rootOrder \in RootOrders(d) :
          LET r == BuildDAGOp(b, d, mapOrder, rootOrder)
          IN /\ b' = r.b
             /\ d' = r.d
             /\ ret' = [op |-> "build", err |-> r.err, ok |-> r.ok]
    /\ UNCHANGED <<circ, idCtr, log>>
    /\ UNCHANGED shotVars
    /\ UNCHANGED runVars
    /\ UNCHANGED opsVars
    /\ UNCHANGED extVars

BuildCircuit ==
    /\ \E mapOrder \in MapOrders(d), rootOrder \in RootOrders(d) :
          LET r == BuildDAGOp(b, d, mapOrder, rootOrder)
          IN /\ b' = r.b
             /\ d' = r.d
             /\ ret' = [op |-> "build", err |-> r.err, ok |-> r.ok]
             /\ circ' = IF r.ok THEN FromDAG(r.d) ELSE circ
    /\ UNCHANGED <<idCtr, log>>
    /\ UNCHANGED shotVars
    /\ UNCHANGED runVars
    /\ UNCHANGED opsVars
    /\ UNCHANGED extVars

\* circuit.FromDAG called by the user on the reader BuildDAG returned.
FromDAGCall ==
    /\ b.built
    /\ circ = NoCircuit
    /\ circ' = FromDAG(d)
    /\ ret' = [op |-> "FromDAG", err |-> Nil, ok |-> TRUE]
    /\ UNCHANGED <<d, b, idCtr, log>>
    /\ UNCHANGED shotVars
    /\ UNCHANGED runVars
    /\ UNCHANGED opsVars
    /\ UNCHANGED extVars

Next ==
    \/ \E c \in BuilderCalls : GateCall(c)
    \/ BuildDAG
    \/ BuildCircuit
    \/ FromDAGCall

Spec == Init /\ [][Next]_vars

(***************************************************************************)
(* SpecDag: one DAG driven through AddGate / AddMeasure / Validate         *)
(***************************************************************************)
\* Gates and qubit lists the calls of the specification hand to AddGate:
\* lists on wires 0 and 1, a repeated index, a negative index and
\* DagQubits, the first index out of range.
DagGates == {"H", "CNOT"}

DagArgs ==
    { <<0>>, <<1>>, <<0, 1>>, <<1, 0>>, <<1, 1>>,
      <<-1>>, <<DagQubits>>, <<0, DagQubits>>, <<DagQubits, DagQubits>> }

DagMeasureQubits == {-1, 0, 1, DagQubits}

DagMeasureClbits == {-1, 0, DagClbits}

\* Every gate span and every list of one to three indices from -1 to
\* DagQubits: the arguments a single AddGate call can be given.
AllGates == {"H", "CNOT", "TOFFOLI"}

AllArgs == UNION {[1..n -> -1..DagQubits] : n \in 1..3}

\* A fresh DAG in a process whose NodeID counter other DAGs have advanced.
InitDag ==
    /\ d = New(DagQubits, DagClbits)
    /\ b = newBuilder
    /\ circ = NoCircuit
    /\ ret = [op |-> "New", err |-> Nil, ok |-> TRUE]
    /\ idCtr = MaxIdStart
    /\ log = <<>>
    /\ ShotsIdle
    /\ RunIdle
    /\ OpsIdle
    /\ ExtIdle

\* d.AddGate(g, qs); nextID() is drawn only when the checks have passed.
DagAddGate(g, qs) ==
    /\ LET r == AddGate(d, g, qs, idCtr + 1)
       IN /\ r.err = Nil => Cardinality(DOMAIN d.nodes) < DagMaxNodes
          /\ d' = r.d
          /\ idCtr' = IF r.err = Nil THEN idCtr + 1 ELSE idCtr
          /\ log' = IF r.err = Nil
                    THEN Append(log, [G |-> g, Qubits |-> qs, Cbit |-> -1])
                    ELSE log
          /\ ret' = [op |-> "AddGate", err |-> r.err, ok |-> r.err = Nil]
    /\ UNCHANGED <<b, circ>>
    /\ UNCHANGED shotVars
    /\ UNCHANGED runVars
    /\ UNCHANGED opsVars
    /\ UNCHANGED extVars

\* d.AddMeasure(q, c).
DagAddMeasure(q, c) ==
    /\ LET r == AddMeasure(d, q, c, idCtr + 1)
       IN /\ r.err = Nil => Cardinality(DOMAIN d.nodes) < DagMaxNodes
          /\ d' = r.d
          /\ idCtr' = IF r.err = Nil THEN idCtr + 1 ELSE idCtr
          /\ log' = IF r.err = Nil
                    THEN Append(log, [G |-> "MEASURE", Qubits |-> <<q>>, Cbit |-> c])
                    ELSE log
          /\ ret' = [op |-> "AddMeasure", err |-> r.err, ok |-> r.err = Nil]
    /\ UNCHANGED <<b, circ>>
    /\ UNCHANGED shotVars
    /\ UNCHANGED runVars
    /\ UNCHANGED opsVars
    /\ UNCHANGED extVars

\* d.Validate().
DagValidate ==
    /\ \E mapOrder \in MapOrders(d), rootOrder \in RootOrders(d) :
          LET r == Validate(d, mapOrder, rootOrder)
          IN /\ d' = r.d
             /\ ret' = [op |-> "Validate", err |-> r.err, ok |-> r.err = Nil]
    /\ UNCHANGED <<b, circ, idCtr, log>>
    /\ UNCHANGED shotVars
    /\ UNCHANGED runVars
    /\ UNCHANGED opsVars
    /\ UNCHANGED extVars

NextDag ==
    \/ \E g \in DagGates, qs \in DagArgs : DagAddGate(g, qs)
    \/ \E q \in DagMeasureQubits, c \in DagMeasureClbits : DagAddMeasure(q, c)
    \/ DagValidate

SpecDag == InitDag /\ [][NextDag]_vars

(***************************************************************************)
(* Properties of the builder, the DAG and the laid-out circuit             *)
(***************************************************************************)
Wires == 0..(NumQubits - 1)

\* C5: a successful AddGate/AddMeasure on qubits qs gives the new node
\* exactly the distinct last writers of the wires in qs (as they were before
\* the call) as parents, each once; appends the new node once to the child
\* list of each of them and to no other; and moves the last-writer slot of
\* exactly the wires in qs to the new node.
C5_ParentsAreLastWriters ==
    [][\A id \in (DOMAIN d'.nodes) \ (DOMAIN d.nodes) :
          LET n == d'.nodes[id]
              qs == Range(n.Qubits)
              lw == {d.last[q] : q \in qs} \ {0}
          IN /\ Range(n.parents) = lw
             /\ Len(n.parents) = Cardinality(lw)
             /\ n.children = <<>>
             /\ \A p \in DOMAIN d.nodes :
                   /\ d'.nodes[p].parents = d.nodes[p].parents
                   /\ d'.nodes[p].children =
                         IF p \in lw THEN Append(d.nodes[p].children, id)
                                     ELSE d.nodes[p].children
             /\ \A q \in Wires :
                   d'.last[q] = IF q \in qs THEN id ELSE d.last[q]
      ]_vars

\* C5 witness: a two-qubit node whose two wires had the same last writer,
\* next to a wire that was never written.
C5_Witness ==
    \E id \in DOMAIN d.nodes :
        /\ Len(d.nodes[id].Qubits) = 2
        /\ Len(d.nodes[id].parents) = 1
        /\ Range(d.nodes[id].Qubits) \subseteq Range(d.nodes[d.nodes[id].parents[1]].Qubits)
        /\ \E q \in Wires : d.last[q] = 0

\* C6: after Validate, Operations() holds every node exactly once and every
\* node behind all of its parents, whichever order the parentless nodes
\* were enqueued in.
C6_TopoOrder ==
    d.valid =>
        LET o == Operations(d)
        IN /\ Range(o) = DOMAIN d.nodes
           /\ Len(o) = Cardinality(DOMAIN d.nodes)
           /\ \A i \in DOMAIN o :
                 \A p \in Range(d.nodes[o[i]].parents) :
                     \E j \in 1..(i - 1) : o[j] = p

\* C6 witness: a validated DAG with a two-parent node whose parentless
\* nodes were not enqueued in creation order.
C6_Witness ==
    /\ d.valid
    /\ \E id \in DOMAIN d.nodes : Len(d.nodes[id].parents) = 2
    /\ \E i, j \in DOMAIN d.topoOrder :
          /\ i < j
          /\ d.topoOrder[i] > d.topoOrder[j]
          /\ {d.topoOrder[i], d.topoOrder[j]} \subseteq Roots(d)

\* Time step of a node as the layout rule defines it.
RECURSIVE TimeStepOf(_, _)
TimeStepOf(dd, id) ==
    IF dd.nodes[id].parents = <<>> THEN 0
    ELSE 1 + Max({TimeStepOf(dd, p) : p \in Range(dd.nodes[id].parents)})

LaidOut(dd, id) ==
    [G |-> dd.nodes[id].G, Qubits |-> dd.nodes[id].Qubits, Cbit |-> dd.nodes[id].Cbit,
     TimeStep |-> TimeStepOf(dd, id), Line |-> Min(Range(dd.nodes[id].Qubits))]

\* (TimeStep, Line) the layout test expects for the calls of LayoutExample.
LayoutExpected == << <<0, 0>>, <<0, 1>>, <<1, 0>>, <<1, 1>>, <<2, 0>> >>

\* C7: every operation of a circuit made by FromDAG has TimeStep = 1 + the
\* largest TimeStep of its parents (0 without parents) and Line = its
\* smallest qubit; the layout example gets (0,0) (0,1) (1,0) (1,1) (2,0).
C7_Layout ==
    circ # NoCircuit =>
        /\ Range(circ.ops) = {LaidOut(d, id) : id \in DOMAIN d.nodes}
        /\ Len(circ.ops) = Cardinality(DOMAIN d.nodes)
        /\ log = AcceptedSeq(LayoutExample) =>
              \A i \in DOMAIN LayoutExample :
                  \E k \in DOMAIN circ.ops :
                      /\ circ.ops[k].G = log[i].G
                      /\ circ.ops[k].Qubits = log[i].Qubits
                      /\ circ.ops[k].TimeStep = LayoutExpected[i][1]
                      /\ circ.ops[k].Line = LayoutExpected[i][2]

\* C7 witness: the circuit of the layout example has been laid out.
C7_Witness ==
    /\ circ # NoCircuit
    /\ log = AcceptedSeq(LayoutExample)
    /\ Len(circ.ops) = 5

\* A second build of the same call sequence: a fresh DAG whose NodeIDs are
\* drawn from a counter that starts at zero.
RECURSIVE Replay(_, _, _)
Replay(dd, calls, i) ==
    IF i > Len(calls) THEN dd
    ELSE Replay(IF calls[i].G = "MEASURE"
                THEN AddMeasure(dd, calls[i].Qubits[1], calls[i].Cbit, i).d
                ELSE AddGate(dd, calls[i].G, calls[i].Qubits, i).d,
                calls, i + 1)

SecondBuild == Replay(New(NumQubits, NumClbits), log, 1)

\* C8: two builds of the same sequence of builder calls publish the same
\* ordered list of laid-out operations, whatever order the topological sort
\* met the parentless nodes in and whatever NodeIDs the counter handed out.
C8_Deterministic ==
    circ # NoCircuit =>
        \A rootOrder \in RootOrders(SecondBuild) :
            FromDAG(Validate(SecondBuild, Ascending(DOMAIN SecondBuild.nodes),
                             rootOrder).d).ops = circ.ops

\* C8 witness: a circuit built from a DAG with other NodeIDs than the
\* second build and with parentless nodes enqueued out of creation order.
C8_Witness ==
    /\ circ # NoCircuit
    /\ DOMAIN d.nodes # DOMAIN SecondBuild.nodes
    /\ \E i, j \in DOMAIN d.topoOrder :
          /\ i < j
          /\ d.topoOrder[i] > d.topoOrder[j]
          /\ {d.topoOrder[i], d.topoOrder[j]} \subseteq Roots(d)

Touches(op, q) == q \in Range(op.Qubits)

OnWire(ops, q) == SelectSeq(ops, LAMBDA op : Touches(op, q))

Unlaid(ops) == [i \in DOMAIN ops |->
                   [G |-> ops[i].G, Qubits |-> ops[i].Qubits, Cbit |-> ops[i].Cbit]]

\* C9: in Circuit.Operations() the operations touching a wire q come in the
\* order in which they were added to the builder, with strictly increasing
\* TimeSteps.
C9_WireOrder ==
    circ # NoCircuit =>
        \A q \in Wires :
            LET w == OnWire(circ.ops, q)
            IN /\ Unlaid(w) = OnWire(log, q)
               /\ \A i \in 1..(Len(w) - 1) : w[i].TimeStep < w[i + 1].TimeStep

\* C9 witness: a built circuit with a wire that carries three operations,
\* one of them spanning several qubits.
C9_Witness ==
    /\ circ # NoCircuit
    /\ \E q \in Wires :
          /\ Len(OnWire(circ.ops, q)) >= 3
          /\ \E i \in DOMAIN circ.ops :
                Touches(circ.ops[i], q) /\ Len(circ.ops[i].Qubits) >= 2

\* C10: once a gate/measure call was rejected by the DAG the builder keeps
\* that error: the rejection stores the DAG's error, every later
\* gate/measure call leaves DAG and error alone, and BuildDAG/BuildCircuit
\* return exactly the stored error without validating the DAG.
C10_ErrorLatch ==
    [][/\ (b.err = Nil /\ b'.err # Nil) =>
             /\ \E c \in BuilderCalls : DagCall(d, c, idCtr + 1).err = b'.err
             /\ d' = d
       /\ b.err # Nil =>
             /\ b' = b
             /\ d' = d
             /\ ~d'.valid
             /\ circ' = circ
             /\ ret'.op = "build" => (ret'.err = b.err /\ ~ret'.ok)
      ]_vars

\* C10 witness: a build call has just returned the latched error of a
\* builder whose DAG holds accepted operations.
C10_Witness ==
    /\ b.err # Nil
    /\ ret.op = "build"
    /\ ret.err = b.err
    /\ Len(log) >= 1

\* C11: once BuildDAG or BuildCircuit has succeeded, every further build call
\* fails with the already-built error and yields no artefact, and every
\* gate/measure call, valid or not, returns the builder leaving the built
\* DAG as it is and the builder's error unset.
C11_SingleUse ==
    [][b.built =>
          /\ b' = b
          /\ b'.err = Nil
          /\ d' = d
          /\ ret'.op = "build" =>
                (~ret'.ok /\ ret'.err = AlreadyBuilt /\ circ' = circ)
          /\ ret'.op = "gate" => (ret'.ok /\ circ' = circ)
      ]_vars

\* C11 witness: a second build call was refused on a built builder that
\* holds operations.
C11_Witness ==
    /\ b.built
    /\ ret.op = "build"
    /\ ret.err = AlreadyBuilt
    /\ Len(log) >= 2

\* Number of nodes on the longest parent chain that ends in node id.
ChainLen(dd, id) == TimeStepOf(dd, id) + 1

\* C25: for every circuit built through the builder Depth() = MaxStep() + 1
\* = the depth Validate stored in the DAG = the number of nodes on the
\* longest parent chain; a circuit without operations has Depth() = 0,
\* MaxStep() = -1 and no operations.
C25_Depth ==
    (circ # NoCircuit /\ d.valid) =>
        /\ circ.depth = circ.maxStep + 1
        /\ circ.depth = d.depth
        /\ d.depth = Max({ChainLen(d, id) : id \in DOMAIN d.nodes} \cup {0})
        /\ circ.maxStep = Max({circ.ops[i].TimeStep : i \in DOMAIN circ.ops} \cup {-1})
        /\ DOMAIN d.nodes = {} =>
              (circ.depth = 0 /\ circ.maxStep = -1 /\ circ.ops = <<>>)

\* C25 witness: a built circuit of depth three whose DAG has more nodes
\* than layers.
C25_Witness ==
    /\ circ # NoCircuit
    /\ circ.depth = 3
    /\ Cardinality(DOMAIN d.nodes) >= 4

\* C28: in a circuit built through the builder no two operations have the
\* same (TimeStep, Line) pair, so the less function of the stable sort
\* orders every two operations one way or the other and the sorted list is
\* the same for every order in which the sort gets its input.
C28_NoTie ==
    circ # NoCircuit =>
        /\ \A i, j \in DOMAIN circ.ops :
              i # j => (OpLess(circ.ops[i], circ.ops[j]) \/ OpLess(circ.ops[j], circ.ops[i]))
        /\ \A i, j \in DOMAIN circ.ops :
              (i # j /\ circ.ops[i].Line = circ.ops[j].Line) =>
                  /\ Touches(circ.ops[i], circ.ops[i].Line)
                  /\ Touches(circ.ops[j], circ.ops[i].Line)
                  /\ circ.ops[i].TimeStep # circ.ops[j].TimeStep
        /\ \A i, j \in DOMAIN circ.ops :
              LET swapped == [circ.ops EXCEPT ![i] = circ.ops[j], ![j] = circ.ops[i]]
              IN SliceStable(swapped, 1, <<>>) = circ.ops

\* C28 witness: a built circuit with two operations in one time step and
\* two operations on one line.
C28_Witness ==
    /\ circ # NoCircuit
    /\ \E i, j \in DOMAIN circ.ops :
          i # j /\ circ.ops[i].TimeStep = circ.ops[j].TimeStep
    /\ \E i, j \in DOMAIN circ.ops :
          i # j /\ circ.ops[i].Line = circ.ops[j].Line

(***************************************************************************)
(* Properties of the DAG driven through its own API                        *)
(***************************************************************************)
\* Conditions under which the DAG API documents an AddGate rejection.
SpanMismatch(g, qs) == Len(qs) # QubitSpan(g)
OutOfRange(dd, qs) == \E i \in DOMAIN qs : qs[i] < 0 \/ qs[i] >= dd.qubits
Repeats(qs) == \E i, j \in DOMAIN qs : i # j /\ qs[i] = qs[j]

\* C12: on a DAG that is not validated, AddGate(g, qs) is rejected when
\* len(qs) differs from the span of g (span error), when an index is outside
\* [0,Q) (bad qubit) or when qs repeats an index (duplicate qubit), and
\* AddMeasure(q, c) when q is outside [0,Q) (bad qubit) or c outside [0,K)
\* (bad clbit); the error is the one of a condition that holds, and is
\* accepted when none holds; a rejected call leaves nodes, edges and
\* last-writer table as they were; every stored node has as many qubits as
\* its gate spans, all in range and pairwise distinct.
C12_Rejections ==
    /\ ~d.valid =>
          /\ \A g \in AllGates, qs \in AllArgs :
                LET r == AddGate(d, g, qs, idCtr + 1)
                    kinds == (IF SpanMismatch(g, qs) THEN {"ErrSpan"} ELSE {})
                             \cup (IF OutOfRange(d, qs) THEN {"ErrBadQubit"} ELSE {})
                             \cup (IF Repeats(qs) THEN {"duplicate qubit"} ELSE {})
                IN IF kinds = {}
                   THEN r.err = Nil
                   ELSE r.err.kind \in kinds /\ r.d = d
          /\ \A q \in -1..DagQubits, c \in -1..DagClbits :
                LET r == AddMeasure(d, q, c, idCtr + 1)
                    kinds == (IF q < 0 \/ q >= d.qubits THEN {"ErrBadQubit"} ELSE {})
                             \cup (IF c < 0 \/ c >= d.clbits THEN {"ErrBadClbit"} ELSE {})
                IN IF kinds = {}
                   THEN r.err = Nil
                   ELSE r.err.kind \in kinds /\ r.d = d
    /\ ~ret.ok => ret.err # Nil
    /\ \A id \in DOMAIN d.nodes :
          LET qs == d.nodes[id].Qubits
          IN /\ Len(qs) = QubitSpan(d.nodes[id].G)
             /\ ~OutOfRange(d, qs)
             /\ ~Repeats(qs)

\* C12 witness: a DAG holding nodes has just rejected an AddGate whose
\* qubit list repeats an index in range.
C12_Witness ==
    /\ ret.op = "AddGate"
    /\ ret.err.kind = "duplicate qubit"
    /\ ~d.valid
    /\ Cardinality(DOMAIN d.nodes) >= 2

\* C13: once Validate has succeeded, every AddGate and AddMeasure fails with
\* the already-validated error whatever its arguments, every Validate
\* succeeds, and no call changes nodes, edges, last-writer table, cached
\* topological order or depth.
C13_Frozen ==
    [][d.valid =>
          /\ d' = d
          /\ ret'.op \in {"AddGate", "AddMeasure"} => ret'.err = ErrValidated
          /\ ret'.op = "Validate" => ret'.err = Nil
          /\ \A g \in AllGates, qs \in AllArgs :
                AddGate(d, g, qs, idCtr + 1) = [err |-> ErrValidated, d |-> d]
      ]_vars

\* C13 witness: a validated DAG with two parentless nodes has refused an
\* addition.
C13_Witness ==
    /\ d.valid
    /\ ret.err = ErrValidated
    /\ Cardinality(Roots(d)) >= 2

\* C14: in every DAG that AddGate/AddMeasure calls, accepted or rejected,
\* can produce, each edge leads from a node created earlier to a node
\* created later; the cycle check finds no cycle from whatever node it
\* starts, and the Kahn pass emits every node for every enqueue order.
C14_Acyclic ==
    /\ \A id \in DOMAIN d.nodes :
          /\ \A p \in Range(d.nodes[id].parents) : p \in DOMAIN d.nodes /\ p < id
          /\ \A c \in Range(d.nodes[id].children) : c \in DOMAIN d.nodes /\ id < c
    /\ \A mapOrder \in MapOrders(d) : acyclic(d, mapOrder) = Nil
    /\ \A rootOrder \in RootOrders(d) :
          Len(calculateTopoSort(d, rootOrder)) = Cardinality(DOMAIN d.nodes)
    /\ ret.op = "Validate" => ret.err = Nil

\* C14 witness: a DAG with a node that has two parents, reached after a
\* rejected call.
C14_Witness ==
    /\ \E id \in DOMAIN d.nodes : Len(d.nodes[id].parents) = 2
    /\ ~ret.ok
    /\ ~d.valid

(***************************************************************************)
(* Properties of the shot engine                                           *)
(***************************************************************************)
\* C1: when RunSerial / RunParallelChan / RunParallelStatic returns, the
\* counts of the histogram add up to the number of RunOnce invocations that
\* succeeded, RunOnce ran at most N times, and without a failed invocation
\* the counts add up to N.
C1_HistogramTotal ==
    mpc = "returned" =>
        /\ HistTotal = callCount - failCount
        /\ callCount <= N
        /\ failCount = 0 => HistTotal = N

\* C1 witness: a parallel call has returned after two workers each stored
\* an increment of the same key.
C1_Witness ==
    /\ mpc = "returned"
    /\ strategy \in {"chan", "static"}
    /\ Cardinality(WorkerIds) >= 2
    /\ failCount = 0
    /\ hist["0"] = N
    /\ N >= 3

\* C2 (as claimed): when RunParallelChan with at least two workers returns
\* after some RunOnce failed, RunOnce was invoked exactly N times and the
\* histogram total is N minus the number of failed invocations.
C2_AllShotsRun ==
    (mpc = "returned" /\ strategy = "chan" /\ Workers >= 2 /\ failCount >= 1) =>
        /\ callCount = Shots
        /\ HistTotal = Shots - failCount

\* C15: RunSerial whose k-th shot is the first to fail has invoked RunOnce
\* exactly k times when it returns, returns a non-nil error, and returns a
\* histogram holding the outcomes of shots 1..k-1 and nothing else: every
\* successful shot adds one to the key it returned, the failed one adds
\* nothing, and no shot runs after it.
C15_SerialAbort ==
    /\ [](strategy = "serial" =>
            /\ HistTotal = si
            /\ failCount <= 1
            /\ failCount = 1 =>
                  (mpc = "returned" /\ retErr # NoError /\ callCount = si + 1 /\ si < Shots)
            /\ (mpc = "returned" /\ failCount = 0) =>
                  (retErr = NoError /\ callCount = Shots /\ si = Shots))
    /\ [][strategy = "serial" =>
            /\ failCount' > failCount => (hist' = hist /\ mpc' = "returned")
            /\ (callCount' > callCount /\ failCount' = failCount) =>
                  \E key \in Outcomes : hist' = [hist EXCEPT ![key] = @ + 1]
            /\ mpc = "returned" => callCount' = callCount
        ]_vars

\* C15 witness: RunSerial has returned after its second shot failed, with
\* a third shot still due.
C15_Witness ==
    /\ strategy = "serial"
    /\ mpc = "returned"
    /\ failCount = 1
    /\ si = 1
    /\ Shots >= 3

\* C16: in RunParallelStatic a worker whose RunOnce fails returns at once,
\* leaving the rest of its chunk unrun and every other worker as it is; a
\* worker ends otherwise only with its chunk exhausted; so when the call
\* returns the shots not executed are the unrun remainders of the chunks,
\* and only workers that failed have a remainder.
C16_StaticFailure ==
    /\ []((strategy = "static" /\ mpc = "returned") =>
            /\ callCount = N - SumHist(wn, WorkerIds)
            /\ Cardinality({w \in WorkerIds : wn[w] > 0}) <= failCount
            /\ failCount <= Cardinality(WorkerIds))
    /\ [][strategy = "static" =>
            \A w \in WorkerIds :
                /\ (wpc[w] = "run" /\ wpc'[w] # "run" /\ failCount' > failCount) =>
                      /\ wpc'[w] = "done"
                      /\ wn' = wn
                      /\ \A v \in WorkerIds \ {w} : wpc'[v] = wpc[v]
                /\ wpc[w] = "done" => (wpc'[w] = "done" /\ wn'[w] = wn[w])
                /\ (wpc[w] = "loop" /\ wpc'[w] = "done") => wn[w] = 0
        ]_vars

\* C16 witness: a static call has returned with one worker stopped by a
\* failure before the end of its chunk and another that finished its chunk.
C16_Witness ==
    /\ strategy = "static"
    /\ mpc = "returned"
    /\ failCount = 1
    /\ \E w, v \in WorkerIds : wn[w] > 0 /\ wn[v] = 0 /\ StaticCnt(v) >= 1
    /\ HistTotal >= 1

\* C17: RunParallelChan and RunParallelStatic return only when every worker
\* has finished; the returned error is non-nil exactly when some RunOnce
\* failed; it is the first error stored in the error channel, which is the
\* error of a failed invocation and which no later report replaces.
C17_FirstError ==
    /\ []((strategy \in {"chan", "static"} /\ mpc = "returned") =>
            /\ \A w \in WorkerIds : wpc[w] = "done"
            /\ (retErr # NoError) <=> (failCount >= 1)
            /\ retErr # NoError =>
                  (retErr = errChan[1] /\ retErr.cause \in 1..callCount))
    /\ [][(strategy = "chan" \/ strategy = "static") =>
            /\ errChan # <<>> =>
                  (Len(errChan') >= Len(errChan) /\ errChan'[1] = errChan[1])
            /\ Len(errChan') > Len(errChan) =>
                  /\ errChan' = Append(errChan, errChan'[Len(errChan')])
                  /\ \/ /\ failCount' > failCount
                        /\ errChan'[Len(errChan')].cause = callCount'
                     \/ \E w \in WorkerIds : errChan'[Len(errChan')] = workerErr[w]
            /\ \A w \in DOMAIN workerErr :
                  (workerErr'[w] # workerErr[w]) =>
                      (failCount' > failCount /\ workerErr'[w].cause = callCount')
        ]_vars

\* C17 witness: a static call has returned the error of the first of two
\* failed invocations.
C17_Witness ==
    /\ strategy = "static"
    /\ mpc = "returned"
    /\ failCount = 2
    /\ retErr.cause = 1

\* C18 (as claimed): whichever strategy ran, the error the engine returns
\* for a failed shot wraps the backend's error with the 1-based ordinal of
\* the failed shot.
C18_ShotOrdinal ==
    (mpc = "returned" /\ retErr # NoError) =>
        /\ retErr.kind = "shot failed"
        /\ retErr.idx \in 1..N
        /\ retErr.cause \in 1..callCount

\* C19: the shot count N is 1024 when the field is <= 0, the worker count W
\* is the CPU count when the field is <= 0 and is capped at N, so
\* 1 <= W <= N, in NewSimulator and in RunParallelStatic alike; worker w
\* gets floor(N/W) shots plus one exactly when w < N mod W, so every worker
\* gets at least one shot, chunk sizes differ by at most one and the chunks
\* of all W workers add up to N.
C19_Partition ==
    LET NN == IF Shots <= 0 THEN 1024 ELSE Shots
        W0 == IF Workers <= 0 THEN NumCPU ELSE Workers
        W == IF W0 > NN THEN NN ELSE W0
    IN /\ StaticShots = NN
       /\ StaticWorkers = W
       /\ 1 <= W /\ W <= NN
       /\ \A optShots \in -1..PartShots, optWorkers \in -1..PartWorkers :
             LET sim == NewSimulator(optShots, optWorkers)
             IN /\ sim.Shots = IF optShots <= 0 THEN 1024 ELSE optShots
                /\ 1 <= sim.Workers /\ sim.Workers <= sim.Shots
                /\ optWorkers \in 1..sim.Shots => sim.Workers = optWorkers
                /\ optWorkers > sim.Shots => sim.Workers = sim.Shots
                /\ (optWorkers <= 0 /\ NumCPU <= sim.Shots) => sim.Workers = NumCPU
       /\ \A w \in DOMAIN wn :
             /\ wn[w] = (NN \div W) + (IF w < NN % W THEN 1 ELSE 0)
             /\ wn[w] >= 1
       /\ \A w, v \in DOMAIN wn : wn[w] - wn[v] <= 1
       /\ mpc = "wait" =>
             /\ DOMAIN wn = 0..(W - 1)
             /\ SumHist(wn, DOMAIN wn) = NN

\* C19 witness: all workers were spawned for a shot count that three or
\* more workers do not divide, the worker field having exceeded it or not.
C19_Witness ==
    /\ strategy = "static"
    /\ mpc = "wait"
    /\ si >= 3
    /\ Shots % si # 0
    /\ wn[0] = wn[si - 1] + 1

(***************************************************************************)
(* Properties of the kernel and of RunOnce                                 *)
(***************************************************************************)
\* C3 (as claimed): one application of FREDKIN on (c, t1, t2) exchanges the
\* amplitudes a_i and a_j, j = (i &~ mask(t1)) | mask(t2), for every i with
\* bit c set, bit t1 set and bit t2 clear, and leaves every amplitude whose
\* index has bit c clear or equal target bits unchanged.
C3_FredkinSwaps ==
    (lastGate.name = "FREDKIN" /\ lastGate.err = Nil) =>
        LET c == lastGate.qubits[1]
            t1 == lastGate.qubits[2]
            t2 == lastGate.qubits[3]
        IN \A i \in DOMAIN amplitudes :
              IF BitSet(i, c) /\ BitSet(i, t1) /\ ~BitSet(i, t2)
              THEN LET j == i - Pow2(t1) + Pow2(t2)
                   IN amplitudes[i] = prevAmps[j] /\ amplitudes[j] = prevAmps[i]
              ELSE (~BitSet(i, c) \/ BitSet(i, t1) = BitSet(i, t2)) =>
                       amplitudes[i] = prevAmps[i]

\* The amplitudes a kernel has to produce when it exchanges a_i and a_j for
\* every index i that satisfies sel, j = partner(i), and leaves the rest.
Exchanged(prev, cur, sel(_), partner(_)) ==
    \A i \in DOMAIN prev :
        IF sel(i) THEN cur[i] = prev[partner(i)] /\ cur[partner(i)] = prev[i]
        ELSE (\A k \in DOMAIN prev : sel(k) => partner(k) # i) => cur[i] = prev[i]

\* C26: one application of X, CNOT, SWAP or TOFFOLI exchanges each affected
\* amplitude pair once (X: bit t clear, j = i | mask(t); CNOT: control set,
\* target clear; SWAP: bit q1 set, bit q2 clear, j = (i &~ mask(q1)) |
\* mask(q2); TOFFOLI: both controls set, target clear) and changes no other
\* amplitude; a second application on the same qubits brings every
\* amplitude back to its index.
C26_PairExchange ==
    /\ (lastGate.name = "X" /\ lastGate.err = Nil) =>
          LET t == lastGate.qubits[1]
          IN Exchanged(prevAmps, amplitudes,
                       LAMBDA i : ~BitSet(i, t), LAMBDA i : i + Pow2(t))
    /\ (lastGate.name = "CNOT" /\ lastGate.err = Nil) =>
          LET c == lastGate.qubits[1]
              t == lastGate.qubits[2]
          IN Exchanged(prevAmps, amplitudes,
                       LAMBDA i : BitSet(i, c) /\ ~BitSet(i, t), LAMBDA i : i + Pow2(t))
    /\ (lastGate.name = "SWAP" /\ lastGate.err = Nil) =>
          LET q1 == lastGate.qubits[1]
              q2 == lastGate.qubits[2]
          IN Exchanged(prevAmps, amplitudes,
                       LAMBDA i : BitSet(i, q1) /\ ~BitSet(i, q2),
                       LAMBDA i : i - Pow2(q1) + Pow2(q2))
    /\ (lastGate.name = "TOFFOLI" /\ lastGate.err = Nil) =>
          LET c1 == lastGate.qubits[1]
              c2 == lastGate.qubits[2]
              t == lastGate.qubits[3]
          IN Exchanged(prevAmps, amplitudes,
                       LAMBDA i : BitSet(i, c1) /\ BitSet(i, c2) /\ ~BitSet(i, t),
                       LAMBDA i : i + Pow2(t))
    /\ (lastGate.name \in {"X", "CNOT", "SWAP", "TOFFOLI"} /\ lastGate.err = Nil) =>
          LET q == lastGate.qubits
              again == CASE lastGate.name = "X" -> applyPauliX(amplitudes, KernelQubits, q[1])
                         [] lastGate.name = "CNOT" -> applyCNOT(amplitudes, KernelQubits, q[1], q[2])
                         [] lastGate.name = "SWAP" -> applySwap(amplitudes, KernelQubits, q[1], q[2])
                         [] lastGate.name = "TOFFOLI" ->
                                applyToffoli(amplitudes, KernelQubits, q[1], q[2], q[3])
          IN again.a = prevAmps

\* C26 witness: SWAP on a higher and a lower qubit has just exchanged two
\* non-zero amplitudes.
C26_Witness ==
    /\ lastGate.name = "SWAP"
    /\ lastGate.err = Nil
    /\ lastGate.qubits[1] > lastGate.qubits[2]
    /\ amplitudes # prevAmps
    /\ \E i, j \in DOMAIN amplitudes :
          /\ i # j
          /\ prevAmps[i] = 1 /\ prevAmps[j] = 2
          /\ amplitudes[i] = 2 /\ amplitudes[j] = 1

\* C27: Measure(q) returns 1 only if an amplitude with bit q set was
\* non-zero; afterwards every amplitude whose index disagrees with the
\* outcome on bit q is zero and the agreeing indices hold non-zero amplitudes
\* exactly where they did before; the outcome is stored in the classical bit
\* the MEASURE operation names and no other classical bit changes.
C27_Measure ==
    lastGate.name = "MEASURE" =>
        LET q == lastGate.qubits[1]
            c == lastGate.qubits[2]
            res == lastGate.result
        IN /\ res => \E i \in DOMAIN prevAmps : prevAmps[i] # 0 /\ BitSet(i, q)
           /\ \A i \in DOMAIN amplitudes :
                 IF BitSet(i, q) # res THEN amplitudes[i] = 0
                 ELSE (amplitudes[i] # 0) <=> (prevAmps[i] # 0)
           /\ classicalBits[c + 1] = res
           /\ Len(classicalBits) = Len(lastGate.bits)
           /\ \A k \in DOMAIN classicalBits :
                 k # c + 1 => classicalBits[k] = lastGate.bits[k]

\* C27 witness: a superposition over both values of the measured qubit
\* collapsed to outcome 1, stored in classical bit 1 while classical bit 0
\* stays clear.
C27_Witness ==
    /\ lastGate.name = "MEASURE"
    /\ lastGate.result
    /\ lastGate.qubits[2] = 1
    /\ classicalBits = <<FALSE, TRUE>>
    /\ \E i, j \in DOMAIN prevAmps :
          /\ prevAmps[i] # 0 /\ BitSet(i, lastGate.qubits[1])
          /\ prevAmps[j] # 0 /\ ~BitSet(j, lastGate.qubits[1])
          /\ amplitudes[i] # 0 /\ amplitudes[j] = 0

\* C29: RunParallelChan and RunParallelStatic always return, whatever shots
\* fail: every worker exits and the caller gets past wg.Wait(); the error
\* channel receives sends only while the caller still waits (it is closed
\* after the wait), and the caller returns only after every worker is done.
C29_Returns ==
    /\ [](strategy # "serial" => <>(mpc = "returned"))
    /\ [](mpc = "returned" => \A w \in WorkerIds : wpc[w] = "done")
    /\ [][errChan' # errChan => mpc = "wait"]_vars

\* C29 witness: RunParallelStatic has returned although two workers failed
\* and the one-slot error channel could hold only one of the errors.
C29_Witness ==
    /\ strategy = "static"
    /\ mpc = "returned"
    /\ failCount = 2
    /\ Len(errChan) = 1

\* Value of classical bit c at the end of the run: the outcome of the last
\* MEASURE onto c, 0 when no MEASURE wrote it.
BitValue(c) == IF c \in DOMAIN written THEN written[c] ELSE FALSE

\* C4 (as claimed): RunOnce of either backend on a circuit with K classical
\* bits returns K characters, classical bit c at position K-1-c (bit 0
\* rightmost), never-measured bits '0'; for K = 0 it returns "0".
C4_OutcomeString ==
    rpc = "done" =>
        LET K == Len(classicalBits)
        IN IF K = 0 THEN result = <<"0">>
           ELSE /\ Len(result) = K
                /\ \A c \in 0..(K - 1) :
                      result[K - c] = IF BitValue(c) THEN "1" ELSE "0"

(***************************************************************************)
(* SpecOps: a caller of Circuit.Operations()                               *)
(*                                                                         *)
(* An Operation holds its qubits in a slice.  Here the backing array of    *)
(* the Qubits slice of the cached operation c.ops[k] is heap[k]; the       *)
(* elements of a returned slice name the array their Qubits slice points   *)
(* to.  circ.ops keeps the layout as FromDAG computed it.                  *)
(***************************************************************************)
\* The DAG of the first n calls of the layout example, validated.
OpsDag(n) ==
    LET calls == AcceptedSeq(SubSeq(LayoutExample, 1, n))
        dd == Replay(New(NumQubits, NumClbits), calls, 1)
    IN Validate(dd, Ascending(DOMAIN dd.nodes), Ascending(Roots(dd))).d

\* After a successful BuildCircuit.
InitOps ==
    /\ \E n \in 1..Min({OpsLen, Len(LayoutExample)}) :
          /\ d = OpsDag(n)
          /\ circ = FromDAG(OpsDag(n))
          /\ log = AcceptedSeq(SubSeq(LayoutExample, 1, n))
          /\ idCtr = n
    /\ b = [err |-> Nil, built |-> TRUE]
    /\ ret = [op |-> "build", err |-> Nil, ok |-> TRUE]
    /\ heap = [k \in DOMAIN circ.ops |-> circ.ops[k].Qubits]
    /\ got = <<>>
    /\ muts = 0
    /\ ShotsIdle
    /\ RunIdle
    /\ ExtIdle

\* c.Operations(): a new slice of the same length; copy() copies each
\* Operation struct, slice header of Qubits included.
CopyOps(ops) ==
    [k \in DOMAIN ops |->
        [G |-> ops[k].G, Qubits |-> k, Cbit |-> ops[k].Cbit,
         TimeStep |-> ops[k].TimeStep, Line |-> ops[k].Line]]

\* The operations a call of c.Operations() hands out, read by value.
CachedOps ==
    [k \in DOMAIN circ.ops |-> [circ.ops[k] EXCEPT !.Qubits = heap[k]]]

OperationsCall ==
    /\ got' = CopyOps(circ.ops)
    /\ UNCHANGED <<heap, muts>>
    /\ UNCHANGED buildVars
    /\ UNCHANGED shotVars
    /\ UNCHANGED runVars
    /\ UNCHANGED extVars

\* The caller executes result[i] = result[j].
CallerReplace(i, j) ==
    /\ muts < OpsMaxMuts
    /\ i \in DOMAIN got /\ j \in DOMAIN got
    /\ got' = [got EXCEPT ![i] = got[j]]
    /\ muts' = muts + 1
    /\ UNCHANGED heap
    /\ UNCHANGED buildVars
    /\ UNCHANGED shotVars
    /\ UNCHANGED runVars
    /\ UNCHANGED extVars

\* The caller executes result[i], result[j] = result[j], result[i].
CallerSwap(i, j) ==
    /\ muts < OpsMaxMuts
    /\ i \in DOMAIN got /\ j \in DOMAIN got
    /\ got' = [got EXCEPT ![i] = got[j], ![j] = got[i]]
    /\ muts' = muts + 1
    /\ UNCHANGED heap
    /\ UNCHANGED buildVars
    /\ UNCHANGED shotVars
    /\ UNCHANGED runVars
    /\ UNCHANGED extVars

\* The caller executes result[i].Qubits[k] = v (k is 1-based here).
CallerWrite(i, k, v) ==
    /\ muts < OpsMaxMuts
    /\ i \in DOMAIN got
    /\ k \in DOMAIN heap[got[i].Qubits]
    /\ heap' = [heap EXCEPT ![got[i].Qubits][k] = v]
    /\ muts' = muts + 1
    /\ UNCHANGED got
    /\ UNCHANGED buildVars
    /\ UNCHANGED shotVars
    /\ UNCHANGED runVars
    /\ UNCHANGED extVars

NextOps ==
    \/ OperationsCall
    \/ \E i, j \in 1..OpsLen : CallerReplace(i, j)
    \/ \E i, j \in 1..OpsLen : CallerSwap(i, j)
    \/ \E i \in 1..OpsLen, k \in 1..3, v \in 0..(NumQubits - 1) : CallerWrite(i, k, v)

SpecOps == InitOps /\ [][NextOps]_vars

\* C20 (as claimed): whatever the caller did to the slices it got from
\* Operations() - replaced or reordered elements, wrote into the Qubits of
\* an element - a later Operations() call returns the operations as FromDAG
\* laid them out.
C20_DefensiveCopy == CachedOps = circ.ops

(***************************************************************************)
(* qc/simulator/registry.go: RunnerRegistry                                *)
(*                                                                         *)
(* SpecRegistry    - RegProcs goroutines, one registry call each, running  *)
(*                   concurrently on one registry                          *)
(* SpecRegistrySeq - one goroutine issuing RegSeqCalls calls in sequence   *)
(***************************************************************************)
\* A nil RunnerFactory; "f" returns a runner, "fnil" returns nil.
NilFactory == "nil"
Factories == {"f", "fnil"}
RegNames == {"a", "b"}

\* The runner factory() returns.
FactoryResult(f) == IF f = "fnil" THEN "nil" ELSE "runner"

ErrEmptyName == [kind |-> "runner name cannot be empty", name |-> ""]
ErrNilFactory == [kind |-> "runner factory cannot be nil", name |-> ""]
ErrAlreadyRegistered(name) == [kind |-> "already registered", name |-> name]
ErrUnknownRunner(name) == [kind |-> "unknown runner", name |-> name]
ErrReturnedNil(name) == [kind |-> "returned nil", name |-> name]

\* Values of RunnerRegistry.factories.
RegMaps == UNION {[S -> Factories] : S \in SUBSET RegNames}

\* The calls a goroutine can make.
RegCallSet ==
    {[op |-> "Register", name |-> n, factory |-> f] :
        n \in RegNames \cup {""}, f \in Factories \cup {NilFactory}}
    \cup {[op |-> o, name |-> n, factory |-> NilFactory] :
        o \in {"Unregister", "Create"}, n \in RegNames \cup {""}}
    \cup {[op |-> "ListRunners", name |-> "", factory |-> NilFactory]}

\* Position a call starts at.
RegEntry(c) ==
    CASE c.op = "Register" -> "args"
      [] c.op = "Unregister" -> "lock"
      [] OTHER -> "rlock"

NoLocals == [factory |-> NilFactory, exists |-> FALSE]
NoReturn == [err |-> Nil, val |-> "none"]
NoAbstract == [ok |-> FALSE, val |-> "none"]
Unlocked == [writer |-> -1, readers |-> {}]

\* A name-to-factory map: what Register, Unregister, Create and ListRunners
\* do to it and return.
MapRegister(m, n, f) ==
    IF n = "" \/ f = NilFactory \/ n \in DOMAIN m
    THEN [m |-> m, ok |-> FALSE, val |-> "none"]
    ELSE [m |-> (n :> f) @@ m, ok |-> TRUE, val |-> "none"]

MapUnregister(m, n) ==
    [m |-> [k \in DOMAIN m \ {n} |-> m[k]], ok |-> TRUE, val |-> n \in DOMAIN m]

MapCreate(m, n) ==
    IF n \in DOMAIN m /\ FactoryResult(m[n]) # "nil"
    THEN [m |-> m, ok |-> TRUE, val |-> FactoryResult(m[n])]
    ELSE [m |-> m, ok |-> FALSE, val |-> "nil"]

MapListRunners(m) == [m |-> m, ok |-> TRUE, val |-> DOMAIN m]

\* A map lookup that never finds the name.
RegExistsNever(m, name) == FALSE

\* "_, exists := r.factories[name]".
RegExists(m, name) == name \in DOMAIN m

\* A lock that lets a writer in while others hold the lock.
WLockNoExclusion(g) == TRUE

\* r.mu.Lock() returns only while no writer and no reader holds the lock.
WLock(g) == rmu.writer = -1 /\ rmu.readers = {}

\* r.mu.RLock() returns only while no writer holds the lock.
RLock(g) == rmu.writer = -1

RegOthersIdle ==
    /\ UNCHANGED buildVars
    /\ UNCHANGED shotVars
    /\ UNCHANGED runVars
    /\ UNCHANGED opsVars
    /\ UNCHANGED qsimVars
    /\ UNCHANGED seedVars

InitRegistry ==
    /\ factories \in RegMaps
    /\ absMap = factories
    /\ regInit = factories
    /\ rmu = Unlocked
    /\ gcall \in [0..(RegProcs - 1) -> RegCallSet]
    /\ gpc = [g \in 0..(RegProcs - 1) |-> RegEntry(gcall[g])]
    /\ gloc = [g \in 0..(RegProcs - 1) |-> NoLocals]
    /\ gret = [g \in 0..(RegProcs - 1) |-> NoReturn]
    /\ gabs = [g \in 0..(RegProcs - 1) |-> NoAbstract]
    /\ rcalls = 0
    /\ BuildIdle
    /\ ShotsIdle
    /\ RunIdle
    /\ OpsIdle
    /\ QSimIdle
    /\ SeedIdle

\* Register: the two argument checks made before the lock is taken.
RegArgs(g) ==
    /\ gpc[g] = "args"
    /\ LET c == gcall[g]
       IN IF c.name = "" \/ c.factory = NilFactory
          THEN /\ gret' = [gret EXCEPT ![g] =
                              [err |-> IF c.name = "" THEN ErrEmptyName ELSE ErrNilFactory,
                               val |-> "none"]]
               /\ gabs' = [gabs EXCEPT ![g] =
                              [ok |-> MapRegister(absMap, c.name, c.factory).ok,
                               val |-> "none"]]
               /\ gpc' = [gpc EXCEPT ![g] = "returned"]
          ELSE /\ gpc' = [gpc EXCEPT ![g] = "lock"]
               /\ UNCHANGED <<gret, gabs>>
    /\ UNCHANGED <<factories, rmu, gcall, gloc, absMap, regInit, rcalls>>
    /\ RegOthersIdle

\* r.mu.Lock() of Register and Unregister.
RegLock(g) ==
    /\ gpc[g] = "lock"
    /\ WLock(g)
    /\ rmu' = [rmu EXCEPT !.writer = g]
    /\ gpc' = [gpc EXCEPT ![g] = "check"]
    /\ UNCHANGED <<factories, gcall, gloc, gret, gabs, absMap, regInit, rcalls>>
    /\ RegOthersIdle

\* Register: the lookup under the lock; a registered name returns the
\* duplicate error through the deferred Unlock.
RegCheck(g) ==
    /\ gpc[g] = "check"
    /\ gcall[g].op = "Register"
    /\ LET c == gcall[g]
       IN IF RegExists(factories, c.name)
          THEN /\ gret' = [gret EXCEPT ![g] =
                              [err |-> ErrAlreadyRegistered(c.name), val |-> "none"]]
               /\ gabs' = [gabs EXCEPT ![g] =
                              [ok |-> MapRegister(absMap, c.name, c.factory).ok,
                               val |-> "none"]]
               /\ rmu' = [rmu EXCEPT !.writer = -1]
               /\ gpc' = [gpc EXCEPT ![g] = "returned"]
          ELSE /\ gpc' = [gpc EXCEPT ![g] = "store"]
               /\ UNCHANGED <<gret, gabs, rmu>>
    /\ UNCHANGED <<factories, gcall, gloc, absMap, regInit, rcalls>>
    /\ RegOthersIdle

\* Register: "r.factories[name] = factory", return nil, deferred Unlock.
RegStore(g) ==
    /\ gpc[g] = "store"
    /\ LET c == gcall[g]
           a == MapRegister(absMap, c.name, c.factory)
       IN /\ factories' = (c.name :> c.factory) @@ factories
          /\ absMap' = a.m
          /\ gabs' = [gabs EXCEPT ![g] = [ok |-> a.ok, val |-> a.val]]
    /\ gret' = [gret EXCEPT ![g] = [err |-> Nil, val |-> "none"]]
    /\ rmu' = [rmu EXCEPT !.writer = -1]
    /\ gpc' = [gpc EXCEPT ![g] = "returned"]
    /\ UNCHANGED <<gcall, gloc, regInit, rcalls>>
    /\ RegOthersIdle

\* Unregister: the lookup under the lock.
UnregCheck(g) ==
    /\ gpc[g] = "check"
    /\ gcall[g].op = "Unregister"
    /\ gloc' = [gloc EXCEPT ![g].exists = RegExists(factories, gcall[g].name)]
    /\ gpc' = [gpc EXCEPT ![g] = "delete"]
    /\ UNCHANGED <<factories, rmu, gcall, gret, gabs, absMap, regInit, rcalls>>
    /\ RegOthersIdle

\* Unregister: the delete, return exists, deferred Unlock.
UnregDelete(g) ==
    /\ gpc[g] = "delete"
    /\ LET c == gcall[g]
           a == MapUnregister(absMap, c.name)
       IN /\ factories' = IF gloc[g].exists
                          THEN [k \in DOMAIN factories \ {c.name} |-> factories[k]]
                          ELSE factories
          /\ absMap' = a.m
          /\ gabs' = [gabs EXCEPT ![g] = [ok |-> a.ok, val |-> a.val]]
    /\ gret' = [gret EXCEPT ![g] = [err |-> Nil, val |-> gloc[g].exists]]
    /\ rmu' = [rmu EXCEPT !.writer = -1]
    /\ gpc' = [gpc EXCEPT ![g] = "returned"]
    /\ UNCHANGED <<gcall, gloc, regInit, rcalls>>
    /\ RegOthersIdle

\* r.mu.RLock() of Create and ListRunners.
RegRLock(g) ==
    /\ gpc[g] = "rlock"
    /\ RLock(g)
    /\ rmu' = [rmu EXCEPT !.readers = @ \cup {g}]
    /\ gpc' = [gpc EXCEPT ![g] = "read"]
    /\ UNCHANGED <<factories, gcall, gloc, gret, gabs, absMap, regInit, rcalls>>
    /\ RegOthersIdle

\* Create: "factory, exists := r.factories[name]" and RUnlock.
CreateRead(g) ==
    /\ gpc[g] = "read"
    /\ gcall[g].op = "Create"
    /\ LET c == gcall[g]
           a == MapCreate(absMap, c.name)
       IN /\ gloc' = [gloc EXCEPT ![g] =
                         [factory |-> IF RegExists(factories, c.name)
                                      THEN factories[c.name] ELSE NilFactory,
                          exists |-> RegExists(factories, c.name)]]
          /\ gabs' = [gabs EXCEPT ![g] = [ok |-> a.ok, val |-> a.val]]
    /\ rmu' = [rmu EXCEPT !.readers = @ \ {g}]
    /\ gpc' = [gpc EXCEPT ![g] = "call"]
    /\ UNCHANGED <<factories, gcall, gret, absMap, regInit, rcalls>>
    /\ RegOthersIdle

\* Create outside the lock: the unknown-runner return, or factory() and the
\* nil test on what it returned.
CreateCall(g) ==
    /\ gpc[g] = "call"
    /\ gret' = [gret EXCEPT ![g] =
                   IF ~gloc[g].exists
                   THEN [err |-> ErrUnknownRunner(gcall[g].name), val |-> "nil"]
                   ELSE IF FactoryResult(gloc[g].factory) = "nil"
                        THEN [err |-> ErrReturnedNil(gcall[g].name), val |-> "nil"]
                        ELSE [err |-> Nil, val |-> FactoryResult(gloc[g].factory)]]
    /\ gpc' = [gpc EXCEPT ![g] = "returned"]
    /\ UNCHANGED <<factories, rmu, gcall, gloc, gabs, absMap, regInit, rcalls>>
    /\ RegOthersIdle

\* ListRunners: the range over r.factories and the deferred RUnlock.
ListCollect(g) ==
    /\ gpc[g] = "read"
    /\ gcall[g].op = "ListRunners"
    /\ gret' = [gret EXCEPT ![g] = [err |-> Nil, val |-> DOMAIN factories]]
    /\ gabs' = [gabs EXCEPT ![g] =
                   [ok |-> MapListRunners(absMap).ok, val |-> MapListRunners(absMap).val]]
    /\ rmu' = [rmu EXCEPT !.readers = @ \ {g}]
    /\ gpc' = [gpc EXCEPT ![g] = "returned"]
    /\ UNCHANGED <<factories, gcall, gloc, absMap, regInit, rcalls>>
    /\ RegOthersIdle

NextRegistry ==
    \/ \E g \in DOMAIN gpc : RegArgs(g)
    \/ \E g \in DOMAIN gpc : RegLock(g)
    \/ \E g \in DOMAIN gpc : RegCheck(g)
    \/ \E g \in DOMAIN gpc : RegStore(g)
    \/ \E g \in DOMAIN gpc : UnregCheck(g)
    \/ \E g \in DOMAIN gpc : UnregDelete(g)
    \/ \E g \in DOMAIN gpc : RegRLock(g)
    \/ \E g \in DOMAIN gpc : CreateRead(g)
    \/ \E g \in DOMAIN gpc : CreateCall(g)
    \/ \E g \in DOMAIN gpc : ListCollect(g)

SpecRegistry == InitRegistry /\ [][NextRegistry]_vars

\* One goroutine, about to make its first call on a registry that holds
\* any map.
InitRegistrySeq ==
    /\ factories \in RegMaps
    /\ absMap = factories
    /\ regInit = factories
    /\ rmu = Unlocked
    /\ gcall \in [{0} -> RegCallSet]
    /\ gpc = [g \in {0} |-> RegEntry(gcall[g])]
    /\ gloc = [g \in {0} |-> NoLocals]
    /\ gret = [g \in {0} |-> NoReturn]
    /\ gabs = [g \in {0} |-> NoAbstract]
    /\ rcalls = 1
    /\ BuildIdle
    /\ ShotsIdle
    /\ RunIdle
    /\ OpsIdle
    /\ QSimIdle
    /\ SeedIdle

\* The goroutine makes its next call.
RegNextCall(c) ==
    /\ gpc[0] = "returned"
    /\ rcalls < RegSeqCalls
    /\ rcalls' = rcalls + 1
    /\ gcall' = [gcall EXCEPT ![0] = c]
    /\ gpc' = [gpc EXCEPT ![0] = RegEntry(c)]
    /\ gloc' = [gloc EXCEPT ![0] = NoLocals]
    /\ regInit' = factories
    /\ UNCHANGED <<factories, rmu, gret, gabs, absMap>>
    /\ RegOthersIdle

NextRegistrySeq ==
    \/ NextRegistry
    \/ \E c \in RegCallSet : RegNextCall(c)

SpecRegistrySeq == InitRegistrySeq /\ [][NextRegistrySeq]_vars

\* The map a sequential call started on.
Before == regInit

Registering(n) ==
    {g \in DOMAIN gcall :
        gcall[g].op = "Register" /\ gcall[g].name = n /\ gcall[g].factory # NilFactory}

\* C22: under every interleaving each call returns what the name-to-factory
\* map returns at one instant between its invocation and its return, and the
\* registry equals that map whenever no writer holds the lock; of the
\* goroutines that register the same unregistered name (nobody unregistering
\* it) exactly one succeeds and the others get the duplicate-name error.
C22_Linearizable ==
    /\ \A g \in DOMAIN gpc :
          gpc[g] = "returned" =>
              /\ (gret[g].err = Nil) <=> gabs[g].ok
              /\ gabs[g].ok => gret[g].val = gabs[g].val
    /\ rmu.writer = -1 => factories = absMap
    /\ \A n \in RegNames :
          LET G == Registering(n)
          IN (/\ G # {}
              /\ n \notin DOMAIN regInit
              /\ \A g \in DOMAIN gcall :
                    ~(gcall[g].op = "Unregister" /\ gcall[g].name = n)
              /\ \A g \in G : gpc[g] = "returned")
             => /\ Cardinality({g \in G : gret[g].err = Nil}) = 1
                /\ \A g \in G : gret[g].err \in {Nil, ErrAlreadyRegistered(n)}

\* C22 witness: two goroutines registered the same unregistered name; one
\* succeeded and the other got the duplicate-name error.
C22_Witness ==
    /\ Cardinality(Registering("a")) >= 2
    /\ "a" \notin DOMAIN regInit
    /\ \A g \in Registering("a") : gpc[g] = "returned"
    /\ \E g \in Registering("a") : gret[g].err = ErrAlreadyRegistered("a")
    /\ \E g \in Registering("a") : gret[g].err = Nil

(***************************************************************************)
(* qc/simulator/qsim/runner.go: RunOnceWithContext and the metrics         *)
(*                                                                         *)
(* SpecQSim - QProcs goroutines call RunOnceWithContext once each on one   *)
(*            runner and a circuit of QOps operations; each call's context *)
(*            may be cancelled at any moment; one more goroutine calls     *)
(*            Reset / ResetMetrics.                                        *)
(***************************************************************************)
ErrCtx == [kind |-> "context canceled", name |-> ""]
NoIncrements == [total |-> 0, success |-> 0, failed |-> 0]

QIds == 0..(QProcs - 1)

QOthersIdle ==
    /\ UNCHANGED buildVars
    /\ UNCHANGED shotVars
    /\ UNCHANGED runVars
    /\ UNCHANGED opsVars
    /\ UNCHANGED regVars
    /\ UNCHANGED seedVars

InitQSim ==
    /\ totalExecutions = 0 /\ successfulRuns = 0 /\ failedRuns = 0
    /\ qpc = [p \in QIds |-> "idle"]
    /\ qctx = [p \in QIds |-> FALSE]
    /\ qi = [p \in QIds |-> 0]
    /\ qstartc = [p \in QIds |-> FALSE]
    /\ qseen = [p \in QIds |-> FALSE]
    /\ qafter = [p \in QIds |-> 0]
    /\ qret = [p \in QIds |-> [err |-> Nil, outcome |-> ""]]
    /\ qdid = [p \in QIds |-> NoIncrements]
    /\ rspc = "idle"
    /\ BuildIdle
    /\ ShotsIdle
    /\ RunIdle
    /\ OpsIdle
    /\ RegIdle
    /\ SeedIdle

\* The owner of the context cancels it before the call has returned.
QCancel(p) ==
    /\ qpc[p] # "returned"
    /\ ~qctx[p]
    /\ qctx' = [qctx EXCEPT ![p] = TRUE]
    /\ UNCHANGED <<totalExecutions, successfulRuns, failedRuns, qpc, qi, qstartc,
                   qseen, qafter, qret, qdid, rspc>>
    /\ QOthersIdle

\* Entry of RunOnceWithContext: totalExecutions.Add(1).
QStart(p) ==
    /\ qpc[p] = "idle"
    /\ totalExecutions' = totalExecutions + 1
    /\ qdid' = [qdid EXCEPT ![p].total = @ + 1]
    /\ qstartc' = [qstartc EXCEPT ![p] = qctx[p]]
    /\ qpc' = [qpc EXCEPT ![p] = "precheck"]
    /\ UNCHANGED <<successfulRuns, failedRuns, qctx, qi, qseen, qafter, qret, rspc>>
    /\ QOthersIdle

\* The select on ctx.Done() before the state is initialised.
QPrecheck(p) ==
    /\ qpc[p] = "precheck"
    /\ IF qctx[p]
       THEN /\ failedRuns' = failedRuns + 1
            /\ qdid' = [qdid EXCEPT ![p].failed = @ + 1]
            /\ qret' = [qret EXCEPT ![p] = [err |-> ErrCtx, outcome |-> ""]]
            /\ qseen' = [qseen EXCEPT ![p] = TRUE]
            /\ qpc' = [qpc EXCEPT ![p] = "returned"]
       ELSE /\ qpc' = [qpc EXCEPT ![p] = "check"]
            /\ UNCHANGED <<failedRuns, qdid, qret, qseen>>
    /\ UNCHANGED <<totalExecutions, successfulRuns, qctx, qi, qstartc, qafter, rspc>>
    /\ QOthersIdle

\* A loop head whose select on ctx.Done() is missing.
QCheckNoCancel(p) ==
    /\ qpc[p] = "check"
    /\ IF qi[p] = QOps
       THEN /\ successfulRuns' = successfulRuns + 1
            /\ qdid' = [qdid EXCEPT ![p].success = @ + 1]
            /\ qret' = [qret EXCEPT ![p] = [err |-> Nil, outcome |-> "bits"]]
            /\ qpc' = [qpc EXCEPT ![p] = "returned"]
            /\ UNCHANGED qseen
       ELSE /\ qseen' = [qseen EXCEPT ![p] = @ \/ qctx[p]]
            /\ qpc' = [qpc EXCEPT ![p] = "apply"]
            /\ UNCHANGED <<successfulRuns, qdid, qret>>
    /\ UNCHANGED <<totalExecutions, failedRuns, qctx, qi, qstartc, qafter, rspc>>
    /\ QOthersIdle

\* Head of "for _, op := range c.Operations()": after the last operation the
\* result is formatted and successfulRuns.Add(1); otherwise the select on
\* ctx.Done() either fails the call or lets the operation through.
QCheck(p) ==
    /\ qpc[p] = "check"
    /\ IF qi[p] = QOps
       THEN /\ successfulRuns' = successfulRuns + 1
            /\ qdid' = [qdid EXCEPT ![p].success = @ + 1]
            /\ qret' = [qret EXCEPT ![p] = [err |-> Nil, outcome |-> "bits"]]
            /\ qpc' = [qpc EXCEPT ![p] = "returned"]
            /\ UNCHANGED <<failedRuns, qseen>>
       ELSE IF qctx[p]
            THEN /\ failedRuns' = failedRuns + 1
                 /\ qdid' = [qdid EXCEPT ![p].failed = @ + 1]
                 /\ qret' = [qret EXCEPT ![p] = [err |-> ErrCtx, outcome |-> ""]]
                 /\ qseen' = [qseen EXCEPT ![p] = TRUE]
                 /\ qpc' = [qpc EXCEPT ![p] = "returned"]
                 /\ UNCHANGED successfulRuns
            ELSE /\ qpc' = [qpc EXCEPT ![p] = "apply"]
                 /\ UNCHANGED <<successfulRuns, failedRuns, qdid, qret, qseen>>
    /\ UNCHANGED <<totalExecutions, qctx, qi, qstartc, qafter, rspc>>
    /\ QOthersIdle

\* The body of the loop: Measure or ApplyGate on an operation of a built
\* circuit.
QApply(p) ==
    /\ qpc[p] = "apply"
    /\ qi' = [qi EXCEPT ![p] = @ + 1]
    /\ qafter' = [qafter EXCEPT ![p] = IF qseen[p] THEN @ + 1 ELSE @]
    /\ qpc' = [qpc EXCEPT ![p] = "check"]
    /\ UNCHANGED <<totalExecutions, successfulRuns, failedRuns, qctx, qstartc, qseen,
                   qret, qdid, rspc>>
    /\ QOthersIdle

\* Reset / ResetMetrics: the three Store(0) calls, one at a time; neither
\* method waits for the calls in progress.
QResetStep ==
    /\ rspc \in {"idle", "total stored", "success stored"}
    /\ \/ /\ rspc = "idle"
          /\ totalExecutions' = 0
          /\ rspc' = "total stored"
          /\ UNCHANGED <<successfulRuns, failedRuns>>
       \/ /\ rspc = "total stored"
          /\ successfulRuns' = 0
          /\ rspc' = "success stored"
          /\ UNCHANGED <<totalExecutions, failedRuns>>
       \/ /\ rspc = "success stored"
          /\ failedRuns' = 0
          /\ rspc' = "done"
          /\ UNCHANGED <<totalExecutions, successfulRuns>>
    /\ UNCHANGED <<qpc, qctx, qi, qstartc, qseen, qafter, qret, qdid>>
    /\ QOthersIdle

NextQSim ==
    \/ \E p \in QIds : QCancel(p)
    \/ \E p \in QIds : QStart(p)
    \/ \E p \in QIds : QPrecheck(p)
    \/ \E p \in QIds : QCheck(p)
    \/ \E p \in QIds : QApply(p)
    \/ QResetStep

SpecQSim == InitQSim /\ [][NextQSim]_vars

\* The call failed on its context: the context's error, no outcome, one
\* totalExecutions and one failedRuns increment.
FailedOnContext(p) ==
    /\ qret[p] = [err |-> ErrCtx, outcome |-> ""]
    /\ qdid[p] = [total |-> 1, success |-> 0, failed |-> 1]

\* C23 as stated: a call whose context was cancelled before it started or
\* while it ran returns the context's error with an empty outcome and counts
\* as one failed execution.
C23_AsStated ==
    \A p \in QIds : (qpc[p] = "returned" /\ qctx[p]) => FailedOnContext(p)

\* C23 amended: a context cancelled when the call starts lets no operation
\* be applied; no operation is applied after a check that follows the
\* cancellation; the call returns the context's error, with an empty outcome
\* and counted as one failed execution, exactly when the pre-check or a
\* per-operation check finds the context cancelled, so a cancellation that
\* arrives after the last per-operation check does not fail the call.
C23_Cancellation ==
    \A p \in QIds :
        /\ qafter[p] = 0
        /\ qpc[p] = "returned" =>
              /\ qstartc[p] => (qi[p] = 0 /\ FailedOnContext(p))
              /\ qseen[p] => FailedOnContext(p)
              /\ ~qseen[p] => (qret[p].err = Nil /\ qdid[p].failed = 0)

\* C23 witness: a call that had applied its first operation found its
\* context cancelled at the next per-operation check and failed on it.
C23_Witness ==
    \E p \in QIds :
        /\ qpc[p] = "returned"
        /\ ~qstartc[p]
        /\ qseen[p]
        /\ qi[p] = 1
        /\ FailedOnContext(p)

\* C30: the successful and the failed runs never add up to more than the
\* executions, and add up to exactly the executions while no call is in
\* progress, also when Reset or ResetMetrics runs next to the calls.
C30_Counters ==
    /\ successfulRuns + failedRuns <= totalExecutions
    /\ (\A p \in QIds : qpc[p] \in {"idle", "returned"}) =>
          totalExecutions = successfulRuns + failedRuns

(***************************************************************************)
(* SpecSeed - two QSimRunner instances, each configured with a seed, each  *)
(*            running the circuit H(0); MEASURE(0 -> 0) under RunSerial    *)
(***************************************************************************)
SeedRunners == {1, 2}
Seeds == 1..MaxSeed

\* The statevector of one qubit after applyHadamard on |0>: both amplitudes
\* are non-zero.
HState == [i \in 0..1 |-> i + 1]

SeedOthersIdle ==
    /\ UNCHANGED buildVars
    /\ UNCHANGED shotVars
    /\ UNCHANGED runVars
    /\ UNCHANGED opsVars
    /\ UNCHANGED regVars
    /\ UNCHANGED qsimVars

InitSeed ==
    /\ sseed = [r \in SeedRunners |-> 0]
    /\ shist = [r \in SeedRunners |-> [k \in Outcomes |-> 0]]
    /\ sshot = [r \in SeedRunners |-> 0]
    /\ BuildIdle
    /\ ShotsIdle
    /\ RunIdle
    /\ OpsIdle
    /\ RegIdle
    /\ QSimIdle

\* Configure({"seed": v}): the value is stored in r.config and nothing else
\* is done with it.
SeedConfigure(r, v) ==
    /\ sseed[r] = 0
    /\ sseed' = [sseed EXCEPT ![r] = v]
    /\ UNCHANGED <<shist, sshot>>
    /\ SeedOthersIdle

\* One shot of RunSerial on a seeded runner: Measure draws rand.Float64()
\* from the source of the math/rand package, which every runner of the
\* process shares and which no runner seeds.
SeedShot(r) ==
    /\ sseed[r] # 0
    /\ sshot[r] < SeedShots
    /\ \E k \in RandSamples :
          LET m == Measure(HState, 1, 0, k)
              key == IF m.result THEN "1" ELSE "0"
          IN shist' = [shist EXCEPT ![r][key] = @ + 1]
    /\ sshot' = [sshot EXCEPT ![r] = @ + 1]
    /\ UNCHANGED sseed
    /\ SeedOthersIdle

NextSeed ==
    \/ \E r \in SeedRunners, v \in Seeds : SeedConfigure(r, v)
    \/ \E r \in SeedRunners : SeedShot(r)

SpecSeed == InitSeed /\ [][NextSeed]_vars

\* C24: two runners configured with the same seed that ran RunSerial on the
\* same circuit with the same number of shots hold identical histograms.
C24_SeedDeterminism ==
    (/\ \A r \in SeedRunners : sshot[r] = SeedShots
     /\ sseed[1] = sseed[2])
    => shist[1] = shist[2]

====
